---- MODULE Spec2Model ----
(***************************************************************************)
(* Model of the investor accumulation pipeline (heygrtnx/investor).        *)
(*                                                                         *)
(* Part I  (Spec): the coordination of runScrapingJob                      *)
(*   src/lib/scraper-job.ts, src/lib/redis.ts, src/lib/progress-tracker.ts *)
(*   Callers of two server processes interleave at every await; the        *)
(*   shared Redis keys scrape:lock, scrape:last, scrape:progress and       *)
(*   investors:all are single-copy; time is measured in seconds.           *)
(*   Records are abstracted to their normalized names in this part; the    *)
(*   store starts with one record of an earlier run and Redis starts       *)
(*   empty (flushed).                                                      *)
(***************************************************************************)
EXTENDS Integers, Sequences, FiniteSets, TLC

\* ------------------------------------------------------------------------
\* Program constants (seconds)
\* ------------------------------------------------------------------------
StaleAfter == 120      \* scraper-job.ts:43   2 * 60 * 1000 ms
LockTTL == 300         \* redis.ts:82         CACHE_TTL.scrapeLock
MaxPolls == 60         \* scraper-job.ts:50   for (let i = 0; i < 60; i++)

\* ------------------------------------------------------------------------
\* Bounds of the model
\* ------------------------------------------------------------------------
TickStep == 120        \* granularity of the clock, in seconds
PollDetail == 1        \* wait-loop iterations scheduled one by one

Procs == {"p1", "p2"}
Callers == {"a", "b", "d"}
ProcOf(c) == IF c = "d" THEN "p2" ELSE "p1"
Crashable == {"p2"}
\* the deployments analysed: two concurrent calls in one server process, or
\* one call at a time in each of two server processes
Deployments == { {"a", "b"}, {"a", "d"} }

Null == "null"
\* scrape:last is absent (getLastScrapeTime yields null)
NoStamp == -1
\* investors:all is absent, or holds the list CacheOf(S)
Absent == << >>
CacheOf(S) == << S >>

\* ------------------------------------------------------------------------
\* Query strings as sequences of characters; query?.toLowerCase().trim() || ""
\* ------------------------------------------------------------------------
RawQueries == { <<"A", " ">>, <<" ", "a">>, <<"b">> }

Upper == {"A", "B", "I", "L", "M"}
LowerOf == [ch \in Upper |-> CASE ch = "A" -> "a" [] ch = "B" -> "b" [] ch = "I" -> "i"
                                [] ch = "L" -> "l" [] ch = "M" -> "m"]
LowerChar(ch) == IF ch \in Upper THEN LowerOf[ch] ELSE ch

ToLower(s) == [i \in 1..Len(s) |-> LowerChar(s[i])]

RECURSIVE TrimLeft(_)
TrimLeft(s) == IF s # <<>> /\ Head(s) = " " THEN TrimLeft(Tail(s)) ELSE s

RECURSIVE TrimRight(_)
TrimRight(s) ==
    IF s # <<>> /\ s[Len(s)] = " " THEN TrimRight(SubSeq(s, 1, Len(s) - 1)) ELSE s

Trim(s) == TrimRight(TrimLeft(s))

NormalizeQuery(q) == Trim(ToLower(q))

Min(x, y) == IF x < y THEN x ELSE y
Max(x, y) == IF x > y THEN x ELSE y

VARIABLES
    \* --- Redis (shared by all processes)
    lockFlag,        \* scrape:lock = '1'
    lockTtl,         \* seconds the flag has left to live
    lockOwner,       \* history: the caller whose SETEX wrote the flag
    lastAge,         \* now - scrape:last in seconds (saturating), -1 when absent
    progress,        \* scrape:progress present
    cached,          \* investors:all : Absent or a set of names
    redisUp,         \* the commands sent to Redis succeed
    \* --- the search request (route.ts:177-484), names only in this part
    getPc, response,
    \* --- record store (data/investors.json), names only in this part
    store,
    \* --- per process module state (scraper-job.ts:11-13)
    isRunning, runningQuery, runningPromise,
    alive,
    frames,          \* the call frames of the deployment
    \* --- per caller
    pc, nq, awaiting, polls, scraped, allInv, result, ret,
    redisLocked,     \* line 33: "null" before the read, then "locked" or "free"
    sinceLast,       \* line 41: timeSinceLastScrape in seconds, NoStamp if none
    \* --- history variables
    metRun,          \* the run in progress in the process at the invocation
    metSame,         \* ... and whether it was for the same normalized query
    lostLock,        \* the callers whose flag was cleared as stale or expired
    path,            \* how the call ended
    runOwner,        \* per process: the caller that set isRunning
    \* --- Part II: the record store and the module state of db.ts
    dbFile,          \* data/investors.json: the list of records
    investorsCache,  \* db.ts:43 : NoCache or the cached list
    \* --- Part II: the run of the job (scraper-job.ts:100-352)
    jobPc, scrapedData, existingInvestors,
    \* --- Part II: the search requests (route.ts:228-374), per request
    srchPc, srchExisting, finalInvestors,
    \* --- Part II: the enrichment request (scraper.ts:820-957)
    enrPc, enrInvestor,
    \* --- Part II: history variables
    merges,          \* the merges of the last run whose write is the latest
    \* --- Part III: what the last merge step was handed, did and returned
    lastBatch, lastExisting, inserted, jobResult,
    lastAi,          \* what extractInterestsBatch yielded in the last merge step
    opsDone,         \* the operations started so far
    \* --- Part IV: the search request in detail (route.ts:140-484)
    query,           \* the parameter q of the request
    queryEntry,      \* search:<query> : NoEntry or the text stored
    cachedResults,   \* what getCachedQueryResults answered
    \* --- Part IV: the argument and the value of a function applied alone
    fnIn, fnOut,
    \* --- the time the records are stamped with
    clock            \* what new Date() reads, counted in runs of the job

coordVars == << lockFlag, lockTtl, lockOwner, lastAge, progress, cached, store,
                isRunning, runningQuery, runningPromise, alive, frames,
                pc, nq, awaiting, polls, scraped, allInv, result, ret,
                redisLocked, sinceLast, metRun, metSame, lostLock, path, runOwner,
                redisUp, getPc, response, query, queryEntry, cachedResults,
                fnIn, fnOut, clock >>

dataVars == << dbFile, investorsCache, jobPc, scrapedData, existingInvestors,
               srchPc, srchExisting, finalInvestors, enrPc, enrInvestor,
               merges, opsDone, lastBatch, lastExisting, inserted, jobResult,
               lastAi >>

unitVars == << lastBatch, lastExisting, inserted, jobResult, lastAi >>

vars == << coordVars, dataVars >>

\* what no step of Part I changes
reqVars == << query, queryEntry, cachedResults, fnIn, fnOut, clock >>
fixedVars == << frames, redisUp, getPc, response, reqVars, dataVars >>

Handlers == {"h1", "h2"}

\* db.ts:43 : investorsCache is null or holds a list
NoCache == << >>

\* Part II at rest: data/investors.json holds [] (db.ts:58-65, 248-253)
\* everything of Parts II and III but the store
DataRest ==
    /\ investorsCache = NoCache
    /\ jobPc = "idle"
    /\ scrapedData = << >>
    /\ existingInvestors = << >>
    /\ srchPc = [h \in Handlers |-> "idle"]
    /\ srchExisting = [h \in Handlers |-> << >>]
    /\ finalInvestors = [h \in Handlers |-> << >>]
    /\ enrPc = "idle"
    /\ enrInvestor = << >>
    /\ merges = {}
    /\ opsDone = 0
    /\ lastBatch = << >>
    /\ lastExisting = << >>
    /\ lastAi = [ok |-> FALSE, interests |-> {}]
    /\ inserted = << >>
    /\ jobResult = << >>

\* db.ts:47-65 : the store starts empty
DataInit == dbFile = << >> /\ DataRest

redisVars == << lockFlag, lockTtl, lockOwner, lastAge, progress, cached >>
memVars == << isRunning, runningQuery, runningPromise, runOwner >>
histVars == << redisLocked, sinceLast, metRun, metSame, lostLock >>
runVars == << scraped, allInv, result >>

\* search:<query> is absent
NoEntry == [shape |-> "none"]
\* getCachedQueryResults has not been called
Unread == [k |-> "unread"]
\* no function is applied alone
NoInput == [fn |-> "none"]

\* Part IV at rest
ReqRest ==
    /\ query = << >> /\ queryEntry = NoEntry /\ cachedResults = Unread
    /\ fnIn = NoInput /\ fnOut = << >>
    /\ clock = 0

\* Part I but Redis and the request
CoordRest ==
    /\ lockFlag = FALSE /\ lockTtl = 0 /\ lockOwner = Null
    /\ getPc = "idle" /\ response = Null
    /\ lastAge = NoStamp
    /\ progress = FALSE
    /\ store = {"n0"}
    /\ isRunning = [p \in Procs |-> FALSE]
    /\ runningQuery = [p \in Procs |-> Null]
    /\ runningPromise = [p \in Procs |-> Null]
    /\ runOwner = [p \in Procs |-> Null]
    /\ alive = [p \in Procs |-> TRUE]
    /\ pc = [c \in Callers |-> "idle"]
    /\ nq = [c \in Callers |-> Null]
    /\ awaiting = [c \in Callers |-> Null]
    /\ polls = [c \in Callers |-> 0]
    /\ scraped = [c \in Callers |-> {}]
    /\ allInv = [c \in Callers |-> {}]
    /\ result = [c \in Callers |-> {}]
    /\ ret = [c \in Callers |-> {}]
    /\ redisLocked = [c \in Callers |-> Null]
    /\ sinceLast = [c \in Callers |-> NoStamp]
    /\ metRun = [c \in Callers |-> Null]
    /\ metSame = [c \in Callers |-> FALSE]
    /\ lostLock = {}
    /\ path = [c \in Callers |-> Null]

CoordInit == CoordRest /\ redisUp = TRUE /\ cached = Absent /\ ReqRest

Init == CoordInit /\ frames \in Deployments /\ DataInit

Live(c) == alive[ProcOf(c)]

\* the calls of a process take its frames in order: b is used while a is taken
Before(c) == IF c = "b" THEN {"a"} ELSE {}

\* the awaits that take long against the clock: the adapter's model call
\* (scraper.ts:401) and the sleep of the wait loop (line 51)
Slow(c) == pc[c] \in {"scraping", "poll"}

InFlight == {c \in Callers : Live(c) /\ pc[c] \notin {"idle", "done"}}

\* a finished call is kept for as long as the run it met at its invocation,
\* or a call that met its run, is still in progress
Forgettable(c) ==
    /\ Live(c) /\ pc[c] = "done"
    /\ metRun[c] # Null => pc[metRun[c]] = "done"
    /\ \A o \in Callers : metRun[o] = c => pc[o] = "done"

\* the program takes its next step once the finished calls are discarded
Settled == \A c \in Callers : ~Forgettable(c)

\* ------------------------------------------------------------------------
\* runScrapingJob, one action per stretch of code between two awaits
\* ------------------------------------------------------------------------

\* redis.ts:156-166, 186-195, 109-122 and progress-tracker.ts:28-38 : what a
\* read of Redis answers; a command that fails is caught and read as a miss
LockSeen == redisUp /\ lockFlag
LastSeen == IF redisUp THEN lastAge ELSE NoStamp
ProgressSeen == redisUp /\ progress
CachedSeen == IF redisUp THEN cached ELSE Absent

\* variants: a write that is never applied, a write that is applied whether
\* or not the command succeeds
WrittenNever(new, old) == old
WrittenAnyway(new, old) == new

\* redis.ts:125-153, 168-183 and progress-tracker.ts:16-25, 41-50 : the value
\* of a key after a write; a command that fails is caught and changes nothing
Written(new, old) == IF redisUp THEN new ELSE old

\* the caller returns value v (the async function's promise resolves)
Return(c, v, how) ==
    /\ pc' = [pc EXCEPT ![c] = "done"]
    /\ ret' = [ret EXCEPT ![c] = v]
    /\ path' = [path EXCEPT ![c] = how]

\* lines 22-33: entry, coalescing test, isScrapingInProgress() issued
Invoke(c, q) ==
    LET p == ProcOf(c)
        n == NormalizeQuery(q)
    IN  /\ Settled /\ Live(c) /\ pc[c] = "idle"
        /\ c \in frames
        /\ \A e \in Before(c) : pc[e] # "idle"
        /\ nq' = [nq EXCEPT ![c] = n]
        /\ metRun' = [metRun EXCEPT ![c] =
              IF isRunning[p] THEN runOwner[p] ELSE Null]
        /\ metSame' = [metSame EXCEPT ![c] =
              isRunning[p] /\ runningQuery[p] = n]
        /\ IF isRunning[p] /\ runningQuery[p] = n /\ runningPromise[p] # Null
             THEN /\ pc' = [pc EXCEPT ![c] = "joined"]
                  /\ awaiting' = [awaiting EXCEPT ![c] = runningPromise[p]]
             ELSE /\ pc' = [pc EXCEPT ![c] = "chk_lock"]
                  /\ UNCHANGED awaiting
        /\ UNCHANGED << redisVars, store, memVars, alive, fixedVars, polls, runVars,
                        ret, path, redisLocked, sinceLast, lostLock >>

\* line 29: the awaited in-flight promise has resolved
JoinReturn(c) ==
    /\ Settled /\ Live(c) /\ pc[c] = "joined"
    /\ pc[awaiting[c]] = "done"
    /\ Return(c, ret[awaiting[c]], "joined")
    /\ UNCHANGED << redisVars, store, memVars, alive, fixedVars, nq, awaiting, polls,
                    runVars, histVars >>

\* redis.ts:156-166 isScrapingInProgress, then line 36
ReadLock(c) ==
    /\ Settled /\ Live(c) /\ pc[c] = "chk_lock"
    /\ redisLocked' = [redisLocked EXCEPT ![c] = IF LockSeen THEN "locked" ELSE "free"]
    /\ pc' = [pc EXCEPT ![c] = IF LockSeen THEN "chk_last" ELSE "chk_mem"]
    /\ UNCHANGED << redisVars, store, memVars, alive, fixedVars, nq, awaiting, polls,
                    runVars, ret, path, sinceLast, metRun, metSame, lostLock >>

\* variant: no recorded time is ever found stale
IsStaleNever(age) == FALSE

\* variant: a threshold beyond the lifetime of the flag
IsStaleBeyondTTL(age) == age > LockTTL

\* timeSinceLastScrape > 2 * 60 * 1000 (line 43)
IsStale(age) == age > StaleAfter

\* redis.ts:186-195 getLastScrapeTime, then lines 38-49 and 67-70: a lock
\* without a time, or with a stale one, is to be cleared; otherwise the call
\* enters the wait loop, where the query is no longer used
ReadLast(c) ==
    LET clear == LastSeen = NoStamp \/ IsStale(LastSeen)
    IN  /\ Settled /\ Live(c) /\ pc[c] = "chk_last"
        /\ sinceLast' = [sinceLast EXCEPT ![c] = LastSeen]
        /\ pc' = [pc EXCEPT ![c] = IF clear THEN "clr" ELSE "poll"]
        /\ nq' = [nq EXCEPT ![c] = IF clear THEN @ ELSE Null]
        /\ UNCHANGED << redisVars, store, memVars, alive, fixedVars, awaiting, polls,
                        runVars, ret, path, redisLocked, metRun, metSame, lostLock >>

\* variant: a release that leaves the flag in place
DelLockSkipped == UNCHANGED << lockFlag, lockTtl, lockOwner >>

\* redis.ts:178 DEL scrape:lock
DelLock ==
    /\ lockFlag' = Written(FALSE, lockFlag)
    /\ lockTtl' = Written(0, lockTtl)
    /\ lockOwner' = Written(Null, lockOwner)

\* lines 44 and 69: setScrapingLock(false) on a stale or unstamped lock
ClearLock(c) ==
    /\ Settled /\ Live(c) /\ pc[c] = "clr"
    /\ DelLock
    /\ lostLock' = IF lockFlag /\ ~lockFlag' /\ sinceLast[c] # NoStamp
                     THEN lostLock \cup {lockOwner} ELSE lostLock
    /\ pc' = [pc EXCEPT ![c] = "chk_mem"]
    /\ UNCHANGED << lastAge, progress, cached, store, memVars, alive, fixedVars, nq,
                    awaiting, polls, runVars, ret, path, redisLocked, sinceLast,
                    metRun, metSame >>

\* variant: a wait loop without its iteration bound
LoopForever(i) == TRUE

\* the loop test of line 50 after i iterations
LoopContinues(i) == i < MaxPolls

\* Iterations of the wait loop are scheduled one by one for the first
\* PollDetail of them; the remaining ones run as one uninterrupted stretch.
PollSteps(i) ==
    (IF i < PollDetail THEN {1} ELSE {}) \cup {MaxPolls - i}

\* lines 50-53 and 61-65: k consecutive iterations of the wait loop
\* (sleep 1 s, getProgress) with no other step in between
Poll(c, k) ==
    /\ Settled /\ Live(c) /\ pc[c] = "poll"
    /\ k \in PollSteps(polls[c])
    /\ IF ProgressSeen
         THEN /\ polls' = [polls EXCEPT ![c] = @ + k]
              /\ IF LoopContinues(polls[c] + k)
                   THEN UNCHANGED << pc, ret, path >>
                   ELSE Return(c, {}, "waited")
         ELSE /\ polls' = [polls EXCEPT ![c] = @ + 1]
              /\ pc' = [pc EXCEPT ![c] = "poll_cache"]
              /\ UNCHANGED << ret, path >>
    /\ UNCHANGED << redisVars, store, memVars, alive, fixedVars, nq, awaiting,
                    runVars, histVars >>

\* lines 55-65: progress absent, getCachedInvestors
PollCache(c) ==
    /\ Settled /\ Live(c) /\ pc[c] = "poll_cache"
    /\ IF CachedSeen # Absent /\ CachedSeen[1] # {}
         THEN Return(c, CachedSeen[1], "waited")
         ELSE Return(c, {}, "waited")
    /\ UNCHANGED << redisVars, store, memVars, alive, fixedVars, nq, awaiting, polls,
                    runVars, histVars >>

\* variants: an in-memory guard that admits every call, or none
MemBusyNever(p) == FALSE
MemBusyAlways(p) == TRUE

\* line 74: the in-memory guard
MemBusy(p) == isRunning[p]

\* lines 73-81: in-memory check, RUNNING, setScrapingLock(true) issued
CheckMem(c) ==
    LET p == ProcOf(c)
    IN  /\ Settled /\ Live(c) /\ pc[c] = "chk_mem"
        /\ IF MemBusy(p)
             THEN /\ Return(c, {}, "rejected")
                  /\ UNCHANGED memVars
             ELSE /\ isRunning' = [isRunning EXCEPT ![p] = TRUE]
                  /\ runningQuery' = [runningQuery EXCEPT ![p] = nq[c]]
                  /\ runOwner' = [runOwner EXCEPT ![p] = c]
                  /\ pc' = [pc EXCEPT ![c] = "lock_setex"]
                  /\ UNCHANGED << runningPromise, ret, path >>
        /\ nq' = [nq EXCEPT ![c] = Null]
        /\ UNCHANGED << redisVars, store, alive, fixedVars, awaiting, polls,
                        runVars, histVars >>

\* redis.ts:175 SETEX scrape:lock 300 '1'; when the command fails the catch
\* of setScrapingLock is entered and the SET of line 176 is not issued
SetLockFlag(c) ==
    /\ Settled /\ Live(c) /\ pc[c] = "lock_setex"
    /\ lockFlag' = Written(TRUE, lockFlag)
    /\ lockTtl' = Written(LockTTL, lockTtl)
    /\ lockOwner' = Written(c, lockOwner)
    /\ lostLock' = lostLock \ {c}
    /\ pc' = [pc EXCEPT ![c] = IF redisUp THEN "lock_stamp" ELSE "lock_skip"]
    /\ UNCHANGED << lastAge, progress, cached, store, memVars, alive, fixedVars, nq,
                    awaiting, polls, runVars, ret, path, redisLocked, sinceLast,
                    metRun, metSame >>

\* redis.ts:176 SET scrape:last now; then line 84: the promise of the run
\* is created and stored
SetLastScrape(c) ==
    LET p == ProcOf(c)
    IN  /\ Settled /\ Live(c) /\ pc[c] \in {"lock_stamp", "lock_skip"}
        /\ lastAge' = IF pc[c] = "lock_stamp" THEN Written(0, lastAge) ELSE lastAge
        /\ runningPromise' = [runningPromise EXCEPT ![p] = c]
        /\ pc' = [pc EXCEPT ![c] = "run_begin"]
        /\ UNCHANGED << lockFlag, lockTtl, lockOwner, progress, cached, store,
                        isRunning, runningQuery, runOwner, alive, fixedVars, nq, awaiting,
                        polls, runVars, ret, path, histVars >>

\* lines 85-101: setProgress("searching"), then scrapeInvestors(query) is called
SetProgressStart(c) ==
    /\ Settled /\ Live(c) /\ pc[c] = "run_begin"
    /\ progress' = Written(TRUE, progress)
    /\ pc' = [pc EXCEPT ![c] = "scraping"]
    /\ UNCHANGED << lockFlag, lockTtl, lockOwner, lastAge, cached, store,
                    memVars, alive, fixedVars, nq, awaiting, polls, runVars, ret, path,
                    histVars >>

\* scraper.ts:378-443: the adapter obtains the candidates, clears the
\* progress and returns (any failure inside it yields the empty list,
\* scraper.ts:444-449)
ScrapeDone(c, batch) ==
    /\ Settled /\ Live(c) /\ pc[c] = "scraping"
    /\ progress' = Written(FALSE, progress)
    /\ scraped' = [scraped EXCEPT ![c] = batch]
    /\ pc' = [pc EXCEPT ![c] = "fetched"]
    /\ redisLocked' = [redisLocked EXCEPT ![c] = Null]
    /\ sinceLast' = [sinceLast EXCEPT ![c] = NoStamp]
    /\ UNCHANGED << lockFlag, lockTtl, lockOwner, lastAge, cached, store,
                    memVars, alive, fixedVars, nq, awaiting, polls, allInv, result, ret,
                    path, metRun, metSame, lostLock >>

\* variant: a finally block that leaves the module state as it is
ResetMemSkipped(p) == UNCHANGED memVars

\* lines 399-402: the finally block resets the module state
ResetMem(p) ==
    /\ isRunning' = [isRunning EXCEPT ![p] = FALSE]
    /\ runningQuery' = [runningQuery EXCEPT ![p] = Null]
    /\ runningPromise' = [runningPromise EXCEPT ![p] = Null]
    /\ runOwner' = [runOwner EXCEPT ![p] = Null]

\* lines 103-109 and 399-403: nothing scraped, clearProgress, return [],
\* finally, setScrapingLock(false) issued
EmptyFetch(c) ==
    /\ Settled /\ Live(c) /\ pc[c] = "fetched" /\ scraped[c] = {}
    /\ progress' = Written(FALSE, progress)
    /\ result' = [result EXCEPT ![c] = {}]
    /\ ResetMem(ProcOf(c))
    /\ pc' = [pc EXCEPT ![c] = "unlock"]
    /\ path' = [path EXCEPT ![c] = "empty"]
    /\ UNCHANGED << lockFlag, lockTtl, lockOwner, lastAge, cached, store,
                    alive, fixedVars, nq, awaiting, polls, scraped, allInv, ret,
                    histVars >>

\* lines 111-119: setProgress("compiling")
SetProgressCompiling(c) ==
    /\ Settled /\ Live(c) /\ pc[c] = "fetched" /\ scraped[c] # {}
    /\ progress' = Written(TRUE, progress)
    /\ pc' = [pc EXCEPT ![c] = "merge"]
    /\ UNCHANGED << lockFlag, lockTtl, lockOwner, lastAge, cached, store,
                    memVars, alive, fixedVars, nq, awaiting, polls, runVars, ret, path,
                    histVars >>

\* lines 124-352 and 374-392: read the store, merge, write the store;
\* the value to return is the new or updated records
Persist(c) ==
    /\ Settled /\ Live(c) /\ pc[c] = "merge"
    /\ allInv' = [allInv EXCEPT ![c] = store \cup scraped[c]]
    /\ store' = store \cup scraped[c]
    /\ result' = [result EXCEPT ![c] = scraped[c]]
    /\ scraped' = [scraped EXCEPT ![c] = {}]
    /\ pc' = [pc EXCEPT ![c] = "invalidate"]
    /\ UNCHANGED << redisVars, memVars, alive, fixedVars, nq, awaiting, polls,
                    ret, path, histVars >>

\* lines 124-352: reading or writing the store file throws
PersistThrows(c) ==
    /\ Settled /\ Live(c) /\ pc[c] = "merge"
    /\ scraped' = [scraped EXCEPT ![c] = {}]
    /\ pc' = [pc EXCEPT ![c] = "catch"]
    /\ UNCHANGED << redisVars, store, memVars, alive, fixedVars, nq, awaiting, polls,
                    allInv, result, ret, path, histVars >>

\* line 125 and db.ts:254-262: reading or parsing the store file throws
\* inside getAllInvestors, which answers [] in that case; the run merges the
\* batch into an empty snapshot and writes the result over the store
PersistReadFails(c) ==
    /\ Settled /\ Live(c) /\ pc[c] = "merge"
    /\ allInv' = [allInv EXCEPT ![c] = scraped[c]]
    /\ store' = scraped[c]
    /\ result' = [result EXCEPT ![c] = scraped[c]]
    /\ scraped' = [scraped EXCEPT ![c] = {}]
    /\ pc' = [pc EXCEPT ![c] = "invalidate"]
    /\ UNCHANGED << redisVars, memVars, alive, fixedVars, nq, awaiting, polls,
                    ret, path, histVars >>

\* line 355 and redis.ts:139-153: DEL investors:all
Invalidate(c) ==
    /\ Settled /\ Live(c) /\ pc[c] = "invalidate"
    /\ cached' = Written(Absent, cached)
    /\ pc' = [pc EXCEPT ![c] = "recache"]
    /\ UNCHANGED << lockFlag, lockTtl, lockOwner, lastAge, progress, store,
                    memVars, alive, fixedVars, nq, awaiting, polls, runVars, ret, path,
                    histVars >>

\* line 357 and redis.ts:125-136: SET investors:all
SetCached(c) ==
    /\ Settled /\ Live(c) /\ pc[c] = "recache"
    /\ cached' = Written(CacheOf(allInv[c]), cached)
    /\ allInv' = [allInv EXCEPT ![c] = {}]
    /\ pc' = [pc EXCEPT ![c] = "final_progress"]
    /\ UNCHANGED << lockFlag, lockTtl, lockOwner, lastAge, progress, store,
                    memVars, alive, fixedVars, nq, awaiting, polls, scraped, result, ret,
                    path, histVars >>

\* lines 360-368: setProgress("almost_done"), 500 ms pause
FinalProgress(c) ==
    /\ Settled /\ Live(c) /\ pc[c] = "final_progress"
    /\ progress' = Written(TRUE, progress)
    /\ pc' = [pc EXCEPT ![c] = "final_clear"]
    /\ UNCHANGED << lockFlag, lockTtl, lockOwner, lastAge, cached, store,
                    memVars, alive, fixedVars, nq, awaiting, polls, runVars, ret, path,
                    histVars >>

\* lines 371-392 and 399-403: clearProgress, return the new or updated
\* records, finally, setScrapingLock(false) issued
FinalClear(c) ==
    /\ Settled /\ Live(c) /\ pc[c] = "final_clear"
    /\ progress' = Written(FALSE, progress)
    /\ ResetMem(ProcOf(c))
    /\ pc' = [pc EXCEPT ![c] = "unlock"]
    /\ path' = [path EXCEPT ![c] = "ok"]
    /\ UNCHANGED << lockFlag, lockTtl, lockOwner, lastAge, cached, store,
                    alive, fixedVars, nq, awaiting, polls, runVars, ret,
                    histVars >>

\* the value of a promise that rejects
Thrown == {"thrown"}

\* variant: a catch block that throws again after clearing the progress
CatchRethrows(c) ==
    /\ Settled /\ Live(c) /\ pc[c] = "catch"
    /\ progress' = Written(FALSE, progress)
    /\ result' = [result EXCEPT ![c] = Thrown]
    /\ ResetMem(ProcOf(c))
    /\ pc' = [pc EXCEPT ![c] = "unlock"]
    /\ path' = [path EXCEPT ![c] = "failed"]
    /\ UNCHANGED << lockFlag, lockTtl, lockOwner, lastAge, cached, store,
                    alive, fixedVars, nq, awaiting, polls, scraped, allInv, ret,
                    histVars >>

\* lines 393-403: the catch block clears the progress and yields [],
\* finally, setScrapingLock(false) issued
Catch(c) ==
    /\ Settled /\ Live(c) /\ pc[c] = "catch"
    /\ progress' = Written(FALSE, progress)
    /\ result' = [result EXCEPT ![c] = {}]
    /\ ResetMem(ProcOf(c))
    /\ pc' = [pc EXCEPT ![c] = "unlock"]
    /\ path' = [path EXCEPT ![c] = "failed"]
    /\ UNCHANGED << lockFlag, lockTtl, lockOwner, lastAge, cached, store,
                    alive, fixedVars, nq, awaiting, polls, scraped, allInv, ret,
                    histVars >>

\* line 403 and 408: DEL scrape:lock, the promise of the run resolves
Unlock(c) ==
    /\ Settled /\ Live(c) /\ pc[c] = "unlock"
    /\ DelLock
    /\ Return(c, result[c], path[c])
    /\ result' = [result EXCEPT ![c] = {}]
    /\ lostLock' = lostLock \ {c}
    /\ UNCHANGED << lastAge, progress, cached, store, memVars, alive, fixedVars, nq,
                    awaiting, polls, scraped, allInv, redisLocked, sinceLast,
                    metRun, metSame >>

\* ------------------------------------------------------------------------
\* Environment: time passes, a server process dies
\* ------------------------------------------------------------------------

\* TickStep seconds pass: scrape:last ages, the TTL of scrape:lock runs down
\* and Redis drops the flag when it reaches zero (redis.ts:175 SETEX)
Tick ==
    /\ Settled
    /\ \A c \in InFlight : Slow(c)
    /\ \/ lastAge \in 0..StaleAfter
       \/ lockFlag
    /\ lastAge' = IF lastAge = NoStamp THEN NoStamp
                  ELSE Min(lastAge + TickStep, StaleAfter + 1)
    /\ lockTtl' = Max(lockTtl - TickStep, 0)
    /\ lockFlag' = (lockFlag /\ lockTtl - TickStep > 0)
    /\ lockOwner' = IF lockFlag /\ lockTtl - TickStep > 0 THEN lockOwner ELSE Null
    /\ lostLock' = IF lockFlag /\ ~lockFlag' THEN lostLock \cup {lockOwner} ELSE lostLock
    /\ UNCHANGED << progress, cached, store, memVars, alive, fixedVars, pc, nq, awaiting,
                    polls, runVars, ret, path, redisLocked, sinceLast, metRun, metSame >>

\* the process dies: its memory, and with it every call in it, is gone
Crash(p) ==
    LET Wipe(f, v) == [c \in Callers |-> IF ProcOf(c) = p THEN v ELSE f[c]]
    IN  /\ Settled
        /\ p \in Crashable /\ alive[p]
        /\ \E c \in Callers : ProcOf(c) = p /\ pc[c] \notin {"idle", "done"}
        /\ alive' = [alive EXCEPT ![p] = FALSE]
        /\ ResetMem(p)
        /\ pc' = Wipe(pc, "idle")
        /\ nq' = Wipe(nq, Null)
        /\ awaiting' = Wipe(awaiting, Null)
        /\ polls' = Wipe(polls, 0)
        /\ scraped' = Wipe(scraped, {})
        /\ allInv' = Wipe(allInv, {})
        /\ result' = Wipe(result, {})
        /\ ret' = Wipe(ret, {})
        /\ redisLocked' = Wipe(redisLocked, Null)
        /\ sinceLast' = Wipe(sinceLast, NoStamp)
        /\ metRun' = Wipe(metRun, Null)
        /\ metSame' = Wipe(metSame, FALSE)
        /\ lostLock' = {c \in lostLock : ProcOf(c) # p}
        /\ path' = Wipe(path, Null)
        /\ UNCHANGED << redisVars, store, fixedVars >>

\* the frames of the finished calls are discarded
Forget ==
    LET F == {c \in Callers : Forgettable(c)}
        Wipe(f, v) == [c \in Callers |-> IF c \in F THEN v ELSE f[c]]
    IN  /\ F # {}
        /\ pc' = Wipe(pc, "idle")
        /\ nq' = Wipe(nq, Null)
        /\ awaiting' = Wipe(awaiting, Null)
        /\ polls' = Wipe(polls, 0)
        /\ ret' = Wipe(ret, {})
        /\ redisLocked' = Wipe(redisLocked, Null)
        /\ sinceLast' = Wipe(sinceLast, NoStamp)
        /\ metRun' = Wipe(metRun, Null)
        /\ metSame' = Wipe(metSame, FALSE)
        /\ path' = Wipe(path, Null)
        /\ UNCHANGED << redisVars, store, memVars, alive, fixedVars, runVars, lostLock >>

\* what the generative source may return to a caller: nothing, or one record
Batches(c) == {{}, {"n1"}}

\* the queries a caller may pass
QueriesOf(c) == IF ProcOf(c) = "p1" THEN RawQueries ELSE {<<"b">>}

Next ==
    \/ \E c \in Callers : \E q \in QueriesOf(c) : Invoke(c, q)
    \/ \E c \in Callers : JoinReturn(c)
    \/ \E c \in Callers : ReadLock(c)
    \/ \E c \in Callers : ReadLast(c)
    \/ \E c \in Callers : ClearLock(c)
    \/ \E c \in Callers, k \in 1..MaxPolls : Poll(c, k)
    \/ \E c \in Callers : PollCache(c)
    \/ \E c \in Callers : CheckMem(c)
    \/ \E c \in Callers : SetLockFlag(c)
    \/ \E c \in Callers : SetLastScrape(c)
    \/ \E c \in Callers : SetProgressStart(c)
    \/ \E c \in Callers : \E b \in Batches(c) : ScrapeDone(c, b)
    \/ \E c \in Callers : EmptyFetch(c)
    \/ \E c \in Callers : SetProgressCompiling(c)
    \/ \E c \in Callers : Persist(c)
    \/ \E c \in Callers : PersistThrows(c)
    \/ \E c \in Callers : Invalidate(c)
    \/ \E c \in Callers : SetCached(c)
    \/ \E c \in Callers : FinalProgress(c)
    \/ \E c \in Callers : FinalClear(c)
    \/ \E c \in Callers : Catch(c)
    \/ \E c \in Callers : Unlock(c)
    \/ Forget
    \/ Tick
    \/ \E p \in Procs : Crash(p)

Spec == Init /\ [][Next]_vars

\* ------------------------------------------------------------------------
\* The calls of two processes, the read and the write of the store apart
\* ------------------------------------------------------------------------
\* line 125: getAllInvestors() reads the store; the snapshot is merged with
\* the batch (lines 126-349, with the await of line 158) before it is written
ReadStore(c) ==
    /\ Settled /\ Live(c) /\ pc[c] = "merge"
    /\ allInv' = [allInv EXCEPT ![c] = store]
    /\ pc' = [pc EXCEPT ![c] = "convert"]
    /\ UNCHANGED << redisVars, store, memVars, alive, fixedVars, nq, awaiting, polls,
                    scraped, result, ret, path, histVars >>

\* line 352: fs.writeFileSync of the snapshot merged with the batch; the
\* value to return is the new or updated records (lines 374-392)
WriteStore(c) ==
    /\ Settled /\ Live(c) /\ pc[c] = "convert"
    /\ allInv' = [allInv EXCEPT ![c] = @ \cup scraped[c]]
    /\ store' = allInv[c] \cup scraped[c]
    /\ result' = [result EXCEPT ![c] = scraped[c]]
    /\ scraped' = [scraped EXCEPT ![c] = {}]
    /\ pc' = [pc EXCEPT ![c] = "invalidate"]
    /\ UNCHANGED << redisVars, memVars, alive, fixedVars, nq, awaiting, polls,
                    ret, path, histVars >>

\* what the generative source returns to the caller of each process
RaceBatches(c) == IF ProcOf(c) = "p1" THEN {{"n1"}} ELSE {{"n2"}}

NextRace ==
    \/ \E c \in Callers : \E q \in QueriesOf(c) : Invoke(c, q)
    \/ \E c \in Callers : ReadLock(c)
    \/ \E c \in Callers : ReadLast(c)
    \/ \E c \in Callers, k \in 1..MaxPolls : Poll(c, k)
    \/ \E c \in Callers : PollCache(c)
    \/ \E c \in Callers : CheckMem(c)
    \/ \E c \in Callers : SetLockFlag(c)
    \/ \E c \in Callers : SetLastScrape(c)
    \/ \E c \in Callers : SetProgressStart(c)
    \/ \E c \in Callers : \E b \in RaceBatches(c) : ScrapeDone(c, b)
    \/ \E c \in Callers : SetProgressCompiling(c)
    \/ \E c \in Callers : ReadStore(c)
    \/ \E c \in Callers : WriteStore(c)
    \/ \E c \in Callers : Invalidate(c)
    \/ \E c \in Callers : SetCached(c)
    \/ \E c \in Callers : FinalProgress(c)
    \/ \E c \in Callers : FinalClear(c)
    \/ \E c \in Callers : Unlock(c)
    \/ Forget

InitRace == CoordInit /\ frames = {"a", "d"} /\ DataInit

SpecRace == InitRace /\ [][NextRace]_vars

\* ------------------------------------------------------------------------
\* The calls of one process and the search request, with backends that fail
\* and the clock standing still
\* ------------------------------------------------------------------------
\* one call at a time, or two concurrent calls, in one server process
FailDeployments == { {"a"}, {"a", "b"} }

\* the commands sent to Redis start failing, or succeed again; with two
\* frames this is followed between the calls only
RedisFlip ==
    /\ frames = {"a"} \/ InFlight = {}
    /\ redisUp' = ~redisUp
    /\ UNCHANGED << redisVars, store, memVars, alive, frames, getPc, response,
                    reqVars, dataVars, pc, nq, awaiting, polls, runVars, ret, path, histVars >>

\* what is left unchanged by the steps of the search request
getFrame == << lockFlag, lockTtl, lockOwner, lastAge, memVars, alive, frames,
               redisUp, reqVars, dataVars, pc, nq, awaiting, polls, runVars, ret, path,
               histVars >>

\* search:<query> (route.ts:145-175): what the cache of the query may hold
QueryCached == IF redisUp THEN {{}, {"n1"}} ELSE {{}}

\* route.ts:177-205 : a request with a query; setProgress, then the
\* generative source is asked. The request is followed while no call of
\* runScrapingJob is in flight.
GetStart ==
    /\ getPc = "idle" /\ InFlight = {} /\ Settled
    /\ getPc' = "asked"
    /\ progress' = Written(TRUE, progress)
    /\ UNCHANGED << cached, store, response, getFrame >>

\* route.ts:206-449 : the source answers. A non-empty answer is converted
\* and returned, and saved in the background, where a failure is caught
\* (lines 342-371); an empty one falls back to the cache of the query, then
\* to a keyword match on the cached canonical set, then to the empty list.
GetAnswered(batch, qc, saved) ==
    /\ getPc = "asked"
    /\ getPc' = "done"
    /\ IF batch # {}
         THEN /\ response' = batch
              /\ progress' = Written(FALSE, progress)
              /\ store' = IF saved THEN store \cup batch ELSE store
              /\ cached' = IF saved THEN Written(CacheOf(store \cup batch), cached)
                                     ELSE cached
         ELSE /\ qc \in QueryCached /\ ~saved
              /\ response' = IF qc # {} THEN qc
                              ELSE IF CachedSeen # Absent THEN CachedSeen[1] ELSE {}
              /\ UNCHANGED << progress, store, cached >>
    /\ UNCHANGED getFrame

\* route.ts:451-483 : an exception in the try block (the source, the store
\* or the conversion throws) is caught; the answer is the cache of the
\* query when it holds records, else the empty list
GetThrows(qc) ==
    /\ getPc = "asked"
    /\ qc \in QueryCached
    /\ getPc' = "done"
    /\ response' = qc
    /\ UNCHANGED << progress, cached, store, getFrame >>

\* the response has been sent
GetForget ==
    /\ getPc = "done"
    /\ getPc' = "idle"
    /\ response' = Null
    /\ UNCHANGED << progress, cached, store, getFrame >>

NextFail ==
    \/ \E c \in Callers : \E q \in QueriesOf(c) : getPc = "idle" /\ Invoke(c, q)
    \/ \E c \in Callers : JoinReturn(c)
    \/ \E c \in Callers : ReadLock(c)
    \/ \E c \in Callers : ReadLast(c)
    \/ \E c \in Callers : ClearLock(c)
    \/ \E c \in Callers, k \in 1..MaxPolls : Poll(c, k)
    \/ \E c \in Callers : PollCache(c)
    \/ \E c \in Callers : CheckMem(c)
    \/ \E c \in Callers : SetLockFlag(c)
    \/ \E c \in Callers : SetLastScrape(c)
    \/ \E c \in Callers : SetProgressStart(c)
    \/ \E c \in Callers : \E b \in Batches(c) : ScrapeDone(c, b)
    \/ \E c \in Callers : EmptyFetch(c)
    \/ \E c \in Callers : SetProgressCompiling(c)
    \/ \E c \in Callers : Persist(c)
    \/ \E c \in Callers : PersistThrows(c)
    \/ \E c \in Callers : PersistReadFails(c)
    \/ \E c \in Callers : Invalidate(c)
    \/ \E c \in Callers : SetCached(c)
    \/ \E c \in Callers : FinalProgress(c)
    \/ \E c \in Callers : FinalClear(c)
    \/ \E c \in Callers : Catch(c)
    \/ \E c \in Callers : Unlock(c)
    \/ Forget
    \/ RedisFlip
    \/ GetStart
    \/ \E batch \in Batches("a") : \E qc \in QueryCached : \E saved \in BOOLEAN :
            GetAnswered(batch, qc, saved)
    \/ \E qc \in QueryCached : GetThrows(qc)
    \/ GetForget

InitFail == CoordInit /\ frames \in FailDeployments /\ DataInit

SpecFail == InitFail /\ [][NextFail]_vars

(***************************************************************************)
(* Part II (SpecData): the records and the writers of the store            *)
(*   src/lib/scraper-job.ts:124-392, src/app/api/search/route.ts:228-374,  *)
(*   src/lib/db.ts, src/lib/investor-utils.ts (src/unnamed/part_010),      *)
(*   src/lib/scraper.ts:419-428 and 909-939.                               *)
(*   One server process; a run of the job, two search requests and an      *)
(*   enrichment request interleave at their awaits.  The generative source *)
(*   is an external collaborator: it may yield any list of candidates.     *)
(*   Text is a sequence of characters, a list a sequence of texts; the     *)
(*   clock stands still in this part, it advances in SpecRuns.             *)
(***************************************************************************)

\* ------------------------------------------------------------------------
\* JavaScript values: undefined, a string, an array
\* ------------------------------------------------------------------------
Undef == [k |-> "undef", v |-> << >>]
Str(s) == [k |-> "str", v |-> s]
Arr(a) == [k |-> "arr", v |-> a]

\* truthiness: undefined and "" are falsy, every array is truthy
Truthy(x) == x.k = "arr" \/ (x.k = "str" /\ x.v # << >>)

\* x?.length || 0
Size(x) == Len(x.v)

\* a || b
Or(a, b) == IF Truthy(a) THEN a ELSE b

\* an object: a function from its keys; o?.k is undefined for a missing key
EmptyObj == [k \in {} |-> Undef]
Get(o, k) == IF k \in DOMAIN o THEN o[k] ELSE Undef

\* JSON.stringify followed by JSON.parse drops the keys whose value is undefined
Json(o) == [k \in {j \in DOMAIN o : o[j].k # "undef"} |-> o[k]]
JsonRec(r) == [r EXCEPT !.profile = Json(@), !.contactInfo = Json(@)]

RECURSIVE JsonList(_)
JsonList(l) == IF l = << >> THEN << >> ELSE << JsonRec(Head(l)) >> \o JsonList(Tail(l))

\* ------------------------------------------------------------------------
\* investor-utils.ts (src/unnamed/part_010) and the fields of a record
\* ------------------------------------------------------------------------
ProfileKeys == {"investmentStage", "checkSize", "geographicFocus", "portfolio",
                "investmentPhilosophy", "fundingSource", "exitExpectations",
                "decisionProcess", "decisionSpeed", "reputation", "network",
                "tractionRequired", "boardParticipation"}
ArrayKeys == {"investmentStage", "geographicFocus", "portfolio"}
ContactKeys == {"email", "linkedin", "twitter", "website"}
TextFields == {"bio", "fullBio", "location", "image"}

\* part_010:8-11 normalizeInvestorName; scraper-job.ts:175 data.name.toLowerCase().trim()
NormalizeName(n) == Trim(ToLower(n))

\* part_010:16-18 and scraper-job.ts:16-19: the digest of `${name}-${source}`,
\* taken to be free of collisions
GenerateId(name, source) == << name, source >>

\* part_010:23-29 and scraper-job.ts:336-337
Completeness(r) == Size(r.bio) + Size(r.fullBio) + Cardinality(DOMAIN r.profile)

\* variant: the incoming text always wins
TakeNew(new, old) == new

\* scraper-job.ts:194,196 and part_010:95-98: the longer text wins
LongerOr(new, old) ==
    IF Truthy(new) /\ (~Truthy(old) \/ Size(new) > Size(old)) THEN new ELSE old

\* scraper-job.ts:209,211,212: a non-empty incoming array wins
ArrayOr(new, old) == IF Truthy(new) /\ Size(new) > 0 THEN new ELSE old

\* scraper-job.ts:202 and part_010:50-53 mergeInterests
MergeInterests(old, new) == IF new # {} THEN old \cup new ELSE old

\* scraper-job.ts:225-231 and part_010:34-45 mergeContactInfo
MergeContactInfo(old, new) ==
    [k \in ContactKeys \cup {"other"} |->
        IF k = "other" THEN Or(Get(old, "other"), Arr(<< >>))
        ELSE Or(Get(new, k), Get(old, k))]

\* scraper-job.ts:204-223: the profile of an existing record and the
\* profile of a candidate
ProfileIntoExisting(old, pd) ==
    IF DOMAIN pd = {} THEN old
    ELSE [k \in DOMAIN old \cup ProfileKeys |->
            IF k \in ArrayKeys THEN ArrayOr(Get(pd, k), Get(old, k))
            ELSE IF k \in ProfileKeys THEN Or(Get(pd, k), Get(old, k))
            ELSE old[k]]

\* scraper-job.ts:252-258: {...alreadyAdded.profile, ...profileData}
ProfileSpread(old, pd) ==
    IF DOMAIN pd = {} THEN old
    ELSE [k \in DOMAIN old \cup DOMAIN pd |->
            IF k \in DOMAIN pd THEN pd[k] ELSE old[k]]

\* part_010:58-81 mergeProfile (an array is compared by ?.length > 0)
MergeProfile(old, pd) ==
    IF DOMAIN pd = {} THEN old
    ELSE IF DOMAIN old = {} THEN pd
    ELSE [k \in DOMAIN old \cup ProfileKeys |->
            IF k \in ArrayKeys
              THEN (IF Size(Get(pd, k)) > 0 THEN Get(pd, k) ELSE Get(old, k))
            ELSE IF k \in ProfileKeys THEN Or(Get(pd, k), Get(old, k))
            ELSE old[k]]


\* ------------------------------------------------------------------------
\* Lists and insertion-ordered maps (Array.find, Array.findIndex, Map)
\* ------------------------------------------------------------------------
First(S) == IF S = {} THEN 0 ELSE CHOOSE i \in S : \A j \in S : i <= j

\* a lookup by name that never finds
FindNone(l, nn) == 0

\* findIndex((e) => e.id === id) + 1, and 0 when there is none
FindById(l, id) == First({i \in 1..Len(l) : l[i].id = id})

\* find((inv) => inv.name.toLowerCase().trim() === nn)
FindByName(l, nn) == First({i \in 1..Len(l) : NormalizeName(l[i].name) = nn})

\* Map.set: a present key keeps its place and takes the new value
MapSet(m, key, val) ==
    LET i == First({j \in 1..Len(m) : m[j].key = key})
    IN  IF i = 0 THEN Append(m, [key |-> key, val |-> val])
        ELSE [m EXCEPT ![i] = [key |-> key, val |-> val]]

MapHas(m, key) == \E j \in 1..Len(m) : m[j].key = key
MapGet(m, key) == m[First({j \in 1..Len(m) : m[j].key = key})].val

\* Array.from(map.values())
MapValues(m) == [i \in 1..Len(m) |-> m[i].val]

\* list.forEach((inv) => map.set(inv.id, inv))
RECURSIVE SetAllById(_, _)
SetAllById(m, l) ==
    IF l = << >> THEN m
    ELSE SetAllById(MapSet(m, Head(l).id, Head(l)), Tail(l))

\* list.forEach((inv) => map.set(inv.name.toLowerCase().trim(), inv))
RECURSIVE SetAllByName(_, _)
SetAllByName(m, l) ==
    IF l = << >> THEN m
    ELSE SetAllByName(MapSet(m, NormalizeName(Head(l).name), Head(l)), Tail(l))

\* ------------------------------------------------------------------------
\* The candidates the generative source may yield (openai-search.ts:137-150)
\* ------------------------------------------------------------------------
Ann == << "A", "n", "n" >>
AnnSpaced == << "a", "n", "n", " " >>
Bob == << "B", "o", "b" >>

OpenAISearch == "OpenAI Search"

FullProfile ==
    [k \in ProfileKeys |-> IF k \in ArrayKeys THEN Arr(<< "p" >>) ELSE Str(<< "p" >>)]

PartProfile ==
    [k \in {"checkSize", "investmentStage", "network"} |->
        IF k = "checkSize" THEN Str(<< "c" >>)
        ELSE IF k = "investmentStage" THEN Arr(<< >>)
        ELSE Str(<< >>)]

FullContact == [k \in ContactKeys |-> Str(<< "u" >>)]

\* a short bio, a location, an e-mail address, one interest, a partial profile
Light(n) ==
    [name |-> n, source |-> OpenAISearch,
     bio |-> Str(<< "x" >>), fullBio |-> Undef,
     location |-> Str(<< "L" >>), image |-> Undef,
     contactInfo |-> [k \in {"email"} |-> Str(<< "e" >>)],
     interests |-> {"i1"}, profile |-> PartProfile]

\* another bio of the same length, an empty location, an image, another
\* interest, no profile and no contact
Other(n) ==
    [name |-> n, source |-> OpenAISearch,
     bio |-> Str(<< "y" >>), fullBio |-> Undef,
     location |-> Str(<< >>), image |-> Str(<< "g" >>),
     contactInfo |-> EmptyObj,
     interests |-> {"i2"}, profile |-> EmptyObj]

\* everything filled in, but no interests
Rich(n) ==
    [name |-> n, source |-> OpenAISearch,
     bio |-> Str(<< "z", "z" >>), fullBio |-> Str(<< "f" >>),
     location |-> Str(<< "M" >>), image |-> Str(<< "h" >>),
     contactInfo |-> FullContact,
     interests |-> {}, profile |-> FullProfile]

\* a listing of another source: the longest bio, its own interest
Crunchbase == "Crunchbase"

Listed(n) ==
    [name |-> n, source |-> Crunchbase,
     bio |-> Str(<< "w", "w", "w" >>), fullBio |-> Undef,
     location |-> Undef, image |-> Undef,
     contactInfo |-> EmptyObj,
     interests |-> {"i4"}, profile |-> EmptyObj]

Candidates == {Light(Ann), Other(Ann), Rich(Ann), Light(AnnSpaced), Light(Bob)}

\* the longest answer of the generative source
MaxBatch == 2

RawBatches == UNION {[1..n -> Candidates] : n \in 1..MaxBatch}

\* what extractInterestsWithAI may yield for a candidate without interests
\* (ai-service.ts:100-126)
AiInterests == { {}, {"i3"} }

\* scraper-job.ts:156-166 : extractInterestsBatch throws (ok is false and
\* interestsMap stays as it was), or yields the same interests for every
\* candidate it was given
NoAi == [ok |-> FALSE, interests |-> {}]
AiOutcomes == {NoAi} \cup {[ok |-> TRUE, interests |-> x] : x \in AiInterests}

\* what the enrichment completion may yield (scraper.ts:909-911)
EnrichResults ==
    { [fullBio |-> Undef, profile |-> EmptyObj],
      [fullBio |-> Str(<< "f", "f" >>), profile |-> [k \in {"checkSize"} |-> Str(<< "d" >>)]] }

\* the operations started in a behaviour
MaxOps == 3

\* ------------------------------------------------------------------------
\* scraper.ts:419-428 : the first candidate of each name, names longer than 2
\* ------------------------------------------------------------------------
RECURSIVE UniqueByName(_, _)
UniqueByName(m, l) ==
    IF l = << >> THEN m
    ELSE LET key == NormalizeName(Head(l).name)
         IN  UniqueByName(IF ~MapHas(m, key) /\ Len(Head(l).name) > 2
                            THEN MapSet(m, key, Head(l)) ELSE m,
                          Tail(l))

ScrapeDedup(l) == MapValues(UniqueByName(<< >>, l))

\* scraper.ts:408-443 : what scrapeInvestors may return
ScrapedBatches == {ScrapeDedup(batch) : batch \in RawBatches}

\* ------------------------------------------------------------------------
\* scraper-job.ts:124-352 : one batch against the snapshot of the store
\* ------------------------------------------------------------------------
\* scraper-job.ts:140-171 : interestsMap is keyed by the raw name, so the
\* entry of a name is that of the last candidate with this name, replaced by
\* the extracted interests when a candidate with this name had none
InterestsFor(batch, i, ai) ==
    LET same == {j \in 1..Len(batch) : batch[j].name = batch[i].name}
        last == CHOOSE j \in same : \A h \in same : h <= j
    IN  IF ai.ok /\ \E j \in same : batch[j].interests = {}
          THEN ai.interests
          ELSE batch[last].interests

\* scraper-job.ts:129 : const now = new Date().toISOString()
Now == clock

\* scraper-job.ts:191-235
UpdatedInvestor(e, data, interests) ==
    [e EXCEPT !.bio = LongerOr(data.bio, @),
              !.fullBio = LongerOr(data.fullBio, @),
              !.location = Or(data.location, @),
              !.image = Or(data.image, @),
              !.interests = MergeInterests(@, interests),
              !.profile = ProfileIntoExisting(@, data.profile),
              !.contactInfo = MergeContactInfo(@, data.contactInfo),
              !.lastUpdated = Now]

\* scraper-job.ts:244-267
MergedInBatch(a, data, interests) ==
    [a EXCEPT !.bio = LongerOr(data.bio, @),
              !.fullBio = LongerOr(data.fullBio, @),
              !.location = Or(data.location, @),
              !.image = Or(data.image, @),
              !.interests = MergeInterests(@, interests),
              !.profile = ProfileSpread(@, data.profile),
              !.contactInfo = MergeContactInfo(@, data.contactInfo),
              !.lastUpdated = Now]

\* scraper-job.ts:278-314
NewInvestor(data, interests) ==
    [id |-> GenerateId(data.name, data.source), name |-> data.name,
     bio |-> data.bio, fullBio |-> data.fullBio,
     location |-> data.location, image |-> data.image,
     interests |-> interests,
     profile |-> IF DOMAIN data.profile # {}
                   THEN [k \in ProfileKeys |-> Get(data.profile, k)]
                   ELSE EmptyObj,
     contactInfo |-> [k \in ContactKeys |-> Get(data.contactInfo, k)],
     source |-> data.source, scrapedAt |-> Now, lastUpdated |-> Now]

MergeNote(kind, pre, data, interests, out) ==
    [kind |-> kind, pre |-> pre, data |-> data, interests |-> interests, out |-> out]

\* a resolution that stops at the lookup by id
ResolveByIdOnly(exMap, data) == FindById(exMap, GenerateId(data.name, data.source))

\* scraper-job.ts:172-183 : the record of the snapshot a candidate resolves
\* to, by id first and by normalized name if that misses; 0 when there is none
Resolve(exMap, data) ==
    LET i == FindById(exMap, GenerateId(data.name, data.source))
    IN  IF i # 0 THEN i ELSE FindByName(exMap, NormalizeName(data.name))

\* scraper-job.ts:169-318 : the loop over the candidates, from the k-th on.
\* acc.new is newInvestors, acc.notes records the merges performed and
\* acc.inserted the normalized names of the records created
RECURSIVE Convert(_, _, _, _, _)
Convert(batch, k, exMap, ai, acc) ==
    IF k > Len(batch) THEN acc
    ELSE
      LET data == batch[k]
          interests == InterestsFor(batch, k, ai)
          nn == NormalizeName(data.name)
          j == Resolve(exMap, data)
          a == FindByName(acc.new, nn)
      IN  IF j # 0 THEN
            LET out == UpdatedInvestor(exMap[j], data, interests)
            IN  Convert(batch, k + 1, exMap, ai,
                        [acc EXCEPT !.new = Append(@, out),
                                    !.notes = @ \cup
                            {MergeNote("existing", exMap[j], data, interests, out)}])
          ELSE IF a # 0 THEN
            LET out == MergedInBatch(acc.new[a], data, interests)
                at == FindById(acc.new, acc.new[a].id)
            IN  Convert(batch, k + 1, exMap, ai,
                        [acc EXCEPT !.new = [@ EXCEPT ![at] = out],
                                    !.notes = @ \cup
                            {MergeNote("batch", acc.new[a], data, interests, out)}])
          ELSE
            Convert(batch, k + 1, exMap, ai,
                    [acc EXCEPT !.new = Append(@, NewInvestor(data, interests)),
                                !.inserted = Append(@, nn)])

\* scraper-job.ts:126-127 and 169-318
Converted(batch, existing, ai) ==
    Convert(batch, 1, MapValues(SetAllById(<< >>, existing)), ai,
            [new |-> << >>, notes |-> {}, inserted |-> << >>])

\* the stored record kept as it is when it is no less complete
KeepStale(inv, e) == IF Completeness(inv) > Completeness(e) THEN inv ELSE e

\* scraper-job.ts:334-344 : the more complete of the two is kept, the
\* stored one with the time of the candidate's record
MoreComplete(inv, e) ==
    IF Completeness(inv) > Completeness(e)
      THEN inv
      ELSE [e EXCEPT !.lastUpdated = inv.lastUpdated]

\* scraper-job.ts:330-347
RECURSIVE SetNewByName(_, _)
SetNewByName(m, l) ==
    IF l = << >> THEN m
    ELSE LET inv == Head(l)
             key == NormalizeName(inv.name)
         IN  SetNewByName(MapSet(m, key,
                                 IF MapHas(m, key) THEN MoreComplete(inv, MapGet(m, key))
                                 ELSE inv),
                          Tail(l))

\* scraper-job.ts:320-349
AllInvestors(existing, new) ==
    MapValues(SetNewByName(SetAllByName(<< >>, existing), new))

\* ------------------------------------------------------------------------
\* route.ts:239-311 : the conversion of the search request
\* ------------------------------------------------------------------------
\* part_010:157-159 isValidInvestorData
IsValidInvestorData(data) == Len(Trim(data.name)) > 0

\* part_010:86-106 mergeInvestors, called at route.ts:254-266 (image: undefined)
MergeInvestors(e, data, interests) ==
    [e EXCEPT !.bio = LongerOr(data.bio, @),
              !.fullBio = LongerOr(data.fullBio, @),
              !.location = Or(data.location, @),
              !.image = Or(Undef, @),
              !.interests = MergeInterests(@, interests),
              !.profile = MergeProfile(@, data.profile),
              !.contactInfo = MergeContactInfo(@, data.contactInfo),
              !.lastUpdated = Now]

\* route.ts:243, 284 : data.source || "OpenAI Search"
SourceOr(source) == IF source # "" THEN source ELSE OpenAISearch

\* route.ts:270-289
NewFromSearch(data) ==
    [id |-> GenerateId(data.name, SourceOr(data.source)),
     name |-> data.name,
     bio |-> data.bio, fullBio |-> data.fullBio,
     location |-> data.location, image |-> Undef,
     interests |-> data.interests,
     profile |-> data.profile,
     contactInfo |-> [k \in ContactKeys |-> Get(data.contactInfo, k)],
     source |-> SourceOr(data.source), scrapedAt |-> Now, lastUpdated |-> Now]

\* route.ts:239-292
RECURSIVE ConvertSearch(_, _)
ConvertSearch(batch, existing) ==
    IF batch = << >> THEN << >>
    ELSE LET data == Head(batch)
             j == FindByName(existing, NormalizeName(data.name))
             rest == ConvertSearch(Tail(batch), existing)
         IN  IF ~IsValidInvestorData(data) THEN rest
             ELSE IF j # 0
               THEN << MergeInvestors(existing[j], data, data.interests) >> \o rest
             ELSE << NewFromSearch(data) >> \o rest

\* variant: the later record wins a tie
RECURSIVE DedupLastWins(_, _)
DedupLastWins(m, l) ==
    IF l = << >> THEN m
    ELSE LET inv == Head(l)
             key == NormalizeName(inv.name)
         IN  DedupLastWins(IF key = << >> THEN m
                           ELSE IF ~MapHas(m, key) THEN MapSet(m, key, inv)
                           ELSE IF Completeness(inv) >= Completeness(MapGet(m, key))
                             THEN MapSet(m, key, inv)
                           ELSE m,
                           Tail(l))

\* part_010:111-152 deduplicateInvestors
RECURSIVE Dedup(_, _)
Dedup(m, l) ==
    IF l = << >> THEN m
    ELSE LET inv == Head(l)
             key == NormalizeName(inv.name)
         IN  Dedup(IF key = << >> THEN m
                   ELSE IF ~MapHas(m, key) THEN MapSet(m, key, inv)
                   ELSE IF Completeness(inv) > Completeness(MapGet(m, key))
                     THEN MapSet(m, key, inv)
                   ELSE m,
                   Tail(l))

DeduplicateInvestors(l) == MapValues(Dedup(<< >>, l))

\* route.ts:349-359 and db.ts:106-112 : replace the record of the id or append
Upsert(l, inv) ==
    LET i == FindById(l, inv.id)
    IN  IF i # 0 THEN [l EXCEPT ![i] = inv] ELSE Append(l, inv)

RECURSIVE UpsertAll(_, _)
UpsertAll(l, invs) ==
    IF invs = << >> THEN l ELSE UpsertAll(Upsert(l, Head(invs)), Tail(invs))

\* db.ts:89-100 getAllInvestorsSync: the cache when there is one, else the file
GetAllInvestorsSync == IF investorsCache # NoCache THEN investorsCache[1] ELSE dbFile

\* db.ts:154-162 : the list saveInvestorsSync writes
SaveInvestorsSync(all) == MapValues(SetAllById(SetAllById(<< >>, GetAllInvestorsSync), all))

\* ------------------------------------------------------------------------
\* scraper.ts:820-939 : the enrichment of one record
\* ------------------------------------------------------------------------
\* scraper.ts:826-839 hasAllFields
HasAllFields(inv) == \A k \in ProfileKeys : Truthy(Get(inv.profile, k))

\* scraper.ts:914-935
EnrichedInvestor(inv, enriched) ==
    [inv EXCEPT
        !.fullBio = Or(enriched.fullBio, Or(inv.fullBio, inv.bio)),
        !.profile = [k \in DOMAIN inv.profile \cup DOMAIN enriched.profile \cup ProfileKeys |->
                        IF k \in ProfileKeys
                          THEN Or(Get(enriched.profile, k), Get(inv.profile, k))
                        ELSE IF k \in DOMAIN enriched.profile THEN enriched.profile[k]
                        ELSE inv.profile[k]],
        !.lastUpdated = Now]

\* scraper.ts:840-843 : a record with every profile field and a fullBio is
\* returned as it is
IsComplete(inv) == HasAllFields(inv) /\ Truthy(inv.fullBio)

\* scraper.ts:820-843, 909-935 : the record enrichInvestorProfile saves and
\* returns when the completion answers
EnrichInvestorProfile(inv, enriched) ==
    IF IsComplete(inv) THEN inv ELSE EnrichedInvestor(inv, enriched)

\* ------------------------------------------------------------------------
\* The operations of Part II
\* ------------------------------------------------------------------------
\* scraper-job.ts:169-352 : convert, assemble, write data/investors.json
JobWrite(data, existing, ai) ==
    LET conv == Converted(data, existing, ai)
    IN  /\ dbFile' = JsonList(AllInvestors(existing, conv.new))
        /\ merges' = conv.notes

\* scraper-job.ts:101-352, every candidate with interests: no await between
\* the read of the store (line 125) and the write (line 352)
JobDirect(data) ==
        /\ jobPc = "idle" /\ opsDone < MaxOps
        /\ data # << >>
        /\ \A i \in 1..Len(data) : data[i].interests # {}
        /\ JobWrite(data, dbFile, NoAi)
        /\ opsDone' = opsDone + 1
        /\ UNCHANGED << coordVars, unitVars, investorsCache, jobPc, scrapedData,
                        existingInvestors, srchPc, srchExisting, finalInvestors,
                        enrPc, enrInvestor >>

\* scraper-job.ts:101-158, a candidate without interests: the run reads the
\* store and awaits extractInterestsBatch
JobSnapshot(data) ==
        /\ jobPc = "idle" /\ opsDone < MaxOps
        /\ data # << >>
        /\ \E i \in 1..Len(data) : data[i].interests = {}
        /\ jobPc' = "extract"
        /\ scrapedData' = data
        /\ existingInvestors' = dbFile
        /\ opsDone' = opsDone + 1
        /\ UNCHANGED << coordVars, unitVars, dbFile, investorsCache, srchPc, srchExisting,
                        finalInvestors, enrPc, enrInvestor, merges >>

\* scraper-job.ts:158-352, after the await
JobExtracted(ai) ==
    /\ jobPc = "extract"
    /\ JobWrite(scrapedData, existingInvestors, ai)
    /\ jobPc' = "idle"
    /\ scrapedData' = << >>
    /\ existingInvestors' = << >>
    /\ UNCHANGED << coordVars, unitVars, investorsCache, srchPc, srchExisting,
                    finalInvestors, enrPc, enrInvestor, opsDone >>

\* the requests are taken in order: h2 serves while h1 is busy
EarlierBusy(h) == h = "h1" \/ srchPc["h1"] # "idle"

\* route.ts:208-311 : the answer of the generative source is converted
\* against getAllInvestorsSync(); the save is deferred (lines 298, 336, 342)
SearchConvert(h, batch) ==
    LET existing == GetAllInvestorsSync
        final == DeduplicateInvestors(ConvertSearch(batch, existing))
    IN  /\ srchPc[h] = "idle" /\ opsDone < MaxOps
        /\ EarlierBusy(h)
        /\ final # << >>
        /\ srchPc' = [srchPc EXCEPT ![h] = "save"]
        /\ srchExisting' = [srchExisting EXCEPT ![h] = existing]
        /\ finalInvestors' = [finalInvestors EXCEPT ![h] = final]
        /\ opsDone' = opsDone + 1
        /\ UNCHANGED << coordVars, unitVars, dbFile, investorsCache, jobPc, scrapedData,
                        existingInvestors, enrPc, enrInvestor, merges >>

\* route.ts:342-363 and db.ts:142-166 : the background save
SearchSave(h) ==
    LET saved == SaveInvestorsSync(UpsertAll(srchExisting[h], finalInvestors[h]))
    IN  /\ srchPc[h] = "save"
        /\ dbFile' = JsonList(saved)
        /\ investorsCache' = << saved >>
        /\ merges' = {}
        /\ srchPc' = [srchPc EXCEPT ![h] = "idle"]
        /\ srchExisting' = [srchExisting EXCEPT ![h] = << >>]
        /\ finalInvestors' = [finalInvestors EXCEPT ![h] = << >>]
        /\ UNCHANGED << coordVars, unitVars, jobPc, scrapedData, existingInvestors,
                        enrPc, enrInvestor, opsDone >>

\* part_005:20-30 and scraper.ts:820-900 : the record is read by id and the
\* completion is awaited
EnrichRead(i) ==
    /\ enrPc = "idle" /\ opsDone < MaxOps
    /\ i \in 1..Len(dbFile)
    /\ ~IsComplete(dbFile[i])
    /\ enrPc' = "completion"
    /\ enrInvestor' = << dbFile[i] >>
    /\ opsDone' = opsDone + 1
    /\ UNCHANGED << coordVars, unitVars, dbFile, investorsCache, jobPc, scrapedData,
                    existingInvestors, srchPc, srchExisting, finalInvestors, merges >>

\* scraper.ts:909-938 and db.ts:68-86, 103-118 : saveInvestor upserts into
\* the cached list while the cache is younger than CACHE_TTL, else into the file
EnrichSave(enriched, young) ==
    LET base == IF investorsCache # NoCache /\ young THEN investorsCache[1] ELSE dbFile
        list == Upsert(base, EnrichedInvestor(enrInvestor[1], enriched))
    IN  /\ enrPc = "completion"
        /\ dbFile' = JsonList(list)
        /\ investorsCache' = << list >>
        /\ merges' = {}
        /\ enrPc' = "idle"
        /\ enrInvestor' = << >>
        /\ UNCHANGED << coordVars, unitVars, jobPc, scrapedData, existingInvestors,
                        srchPc, srchExisting, finalInvestors, opsDone >>

\* scraper.ts:953-956 : the completion fails, nothing is saved
EnrichFailed ==
    /\ enrPc = "completion"
    /\ enrPc' = "idle"
    /\ enrInvestor' = << >>
    /\ UNCHANGED << coordVars, unitVars, dbFile, investorsCache, jobPc, scrapedData,
                    existingInvestors, srchPc, srchExisting, finalInvestors,
                    merges, opsDone >>

NextData ==
    \/ \E data \in ScrapedBatches : JobDirect(data)
    \/ \E data \in ScrapedBatches : JobSnapshot(data)
    \/ \E ai \in AiOutcomes : JobExtracted(ai)
    \/ \E h \in Handlers : \E batch \in RawBatches : SearchConvert(h, batch)
    \/ \E h \in Handlers : SearchSave(h)
    \/ \E i \in 1..MaxOps * MaxBatch : EnrichRead(i)
    \/ \E enriched \in EnrichResults : \E young \in BOOLEAN : EnrichSave(enriched, young)
    \/ EnrichFailed

\* one server process, no call of Part I in flight
InitData == Init /\ frames = {"a", "b"}

SpecData == InitData /\ [][NextData]_vars

\* ------------------------------------------------------------------------
\* Part III: the merge step of runScrapingJob on its own, handed any batch
\* ------------------------------------------------------------------------
\* the batches the merge step may be handed: any list of candidates, of
\* either source, duplicates included
UnitCandidates == Candidates \cup {Listed(Ann)}
UnitBatches == UNION {[1..n -> UnitCandidates] : n \in 1..MaxBatch}

\* the stores a merge step may find: empty, or as an earlier run left it
Stores ==
    {<< >>} \cup
    {JsonList(AllInvestors(<< >>, Converted(batch, << >>, ai).new)) :
        batch \in UnitBatches, ai \in AiOutcomes}

\* scraper-job.ts:374-392 : the list the run returns
ReturnedInvestors(new) == MapValues(SetNewByName(<< >>, new))

\* scraper-job.ts:111-392 : one merge step from the read of the store to the
\* returned list; ai is the outcome of extractInterestsBatch, consulted only
\* when a candidate has no interests
MergeStep(batch, ai) ==
    /\ opsDone = 0
    /\ ai = NoAi \/ \E i \in 1..Len(batch) : batch[i].interests = {}
    /\ LET conv == Converted(batch, dbFile, ai)
       IN  /\ dbFile' = JsonList(AllInvestors(dbFile, conv.new))
           /\ merges' = conv.notes
           /\ inserted' = conv.inserted
           /\ jobResult' = ReturnedInvestors(conv.new)
    /\ lastBatch' = batch
    /\ lastExisting' = dbFile
    /\ lastAi' = ai
    /\ opsDone' = opsDone + 1
    /\ UNCHANGED << coordVars, investorsCache, jobPc, scrapedData,
                    existingInvestors, srchPc, srchExisting, finalInvestors,
                    enrPc, enrInvestor >>

NextMerge == \E batch \in UnitBatches : \E ai \in AiOutcomes : MergeStep(batch, ai)

InitMerge == CoordInit /\ frames = {"a", "b"} /\ DataRest /\ dbFile \in Stores

SpecMerge == InitMerge /\ [][NextMerge]_vars

\* ------------------------------------------------------------------------
\* Properties of the coordination (Part I)
\* ------------------------------------------------------------------------

\* positions of a call between isRunning = true (line 79) and the finally
\* block (lines 399-402)
RunPcs == {"lock_setex", "lock_stamp", "lock_skip", "run_begin", "scraping", "fetched",
           "merge", "convert", "invalidate", "recache", "final_progress", "final_clear",
           "catch"}

\* positions from the clearing of a lock (lines 44, 69) to the adapter call
\* (line 101)
AdapterPath == {"clr", "chk_mem", "lock_setex", "lock_stamp", "run_begin",
                "scraping"}

\* the ways a call that executed a run ends: lines 392, 108, 398
RanPaths == {"ok", "empty", "failed"}

\* C1: a call made while a run for the same normalized query is in progress
\* in its process (isRunning set, cleanup not yet done) gets the value that
\* run resolves to, and starts no run of its own.
Coalescing ==
    \A c \in Callers :
        (pc[c] = "done" /\ metRun[c] # Null /\ metSame[c]
            /\ pc[metRun[c]] = "done")
        => (ret[c] = ret[metRun[c]] /\ path[c] \notin RanPaths)

\* C2: in every process at most one call is between isRunning = true and
\* the cleanup, hence at most one adapter call of the job is in flight.
OneRunPerProcess ==
    \A p \in Procs :
        /\ Cardinality({c \in Callers : ProcOf(c) = p /\ pc[c] \in RunPcs}) <= 1
        /\ Cardinality({c \in Callers : ProcOf(c) = p /\ pc[c] = "scraping"}) <= 1
        /\ \A c \in Callers : (ProcOf(c) = p /\ pc[c] \in RunPcs)
              => (isRunning[p] /\ runOwner[p] = c)

OneRunWitness ==
    \E c, o \in Callers :
        /\ c # o /\ ProcOf(c) = ProcOf(o)
        /\ pc[o] = "scraping"
        /\ pc[c] = "done" /\ path[c] = "rejected"

\* C3: a call made while a run for a different normalized query is RUNNING
\* in its process, and returning while that run is still RUNNING, was
\* rejected at once: it returns [] and never entered the wait loop.
RejectOtherQuery ==
    \A c \in Callers :
        (pc[c] = "done" /\ metRun[c] # Null /\ ~metSame[c]
            /\ pc[metRun[c]] \in RunPcs)
        => (path[c] = "rejected" /\ polls[c] = 0 /\ ret[c] = {})

StaleRecoveryAlways ==
    \A c \in Callers :
        (redisLocked[c] = "locked" /\ sinceLast[c] > StaleAfter)
        => pc[c] \in AdapterPath

\* C5 amended: such a call never enters the wait loop and deletes the lock;
\* it then takes the lock anew with a new time and calls the adapter, unless
\* a run is in progress in its own process when it reaches the in-memory
\* check, in which case it returns [].
StaleRecoveryInv ==
    \A c \in Callers :
        (redisLocked[c] = "locked" /\ sinceLast[c] > StaleAfter)
        => /\ polls[c] = 0
           /\ pc[c] \in AdapterPath \cup {"done"}
           /\ pc[c] = "done" => (path[c] = "rejected" /\ ret[c] = {})

StaleRecoveryStep ==
    \A c \in Callers :
        (redisLocked[c] = "locked" /\ sinceLast[c] > StaleAfter
            /\ alive'[ProcOf(c)])
        => /\ (pc[c] = "clr" /\ pc'[c] # "clr")
                => (pc'[c] = "chk_mem" /\ ~lockFlag')
           /\ (pc[c] = "chk_mem" /\ pc'[c] = "done")
                => isRunning[ProcOf(c)]
           /\ (pc[c] = "chk_mem" /\ pc'[c] \notin {"chk_mem", "done"})
                => pc'[c] = "lock_setex"
           /\ (pc[c] = "lock_setex" /\ pc'[c] # "lock_setex")
                => (lockFlag' /\ lockTtl' = LockTTL /\ pc'[c] = "lock_stamp")
           /\ (pc[c] = "lock_stamp" /\ pc'[c] # "lock_stamp")
                => (lastAge' = 0 /\ pc'[c] = "run_begin")
           /\ (pc[c] = "run_begin" /\ pc'[c] # "run_begin")
                => pc'[c] = "scraping"

StaleRecovery == [][StaleRecoveryStep]_vars /\ []StaleRecoveryInv

StaleRecoveryWitness ==
    \E c \in Callers :
        /\ redisLocked[c] = "locked" /\ sinceLast[c] > StaleAfter
        /\ pc[c] = "scraping"

\* C6: once a process has died, a call of another process that finds the
\* flag gone (the TTL of 300 s has run out) or finds it with a recorded time
\* older than the threshold, or with none, goes on to start a run: it does
\* not wait and does not return before the adapter is called.
CrashRecovery ==
    \A c \in Callers :
        (/\ frames = {"a", "d"} /\ Live(c)
         /\ \E p \in Procs : ~alive[p]
         /\ pc[c] \notin {"idle", "chk_lock", "chk_last"}
         /\ \/ redisLocked[c] = "free"
            \/ /\ redisLocked[c] = "locked"
               /\ (sinceLast[c] = NoStamp \/ sinceLast[c] > StaleAfter))
        => pc[c] \in AdapterPath

CrashRecoveryWitness ==
    \E c \in Callers :
        /\ Live(c) /\ pc[c] = "clr"
        /\ lockFlag /\ lockOwner # Null /\ ~alive[ProcOf(lockOwner)]
        /\ redisLocked[c] = "locked" /\ sinceLast[c] > StaleAfter

\* C7: a call that found the flag set with a recorded time not older than
\* the threshold makes at most 60 polls, can always make its next step,
\* returns the cached set (progress gone, cache non-empty) or [], and never
\* starts a run.
BoundedWaitInv ==
    \A c \in Callers :
        /\ polls[c] <= MaxPolls
        /\ pc[c] = "poll" => polls[c] < MaxPolls
        /\ pc[c] \in {"poll", "poll_cache"} =>
              /\ redisLocked[c] = "locked"
              /\ sinceLast[c] \in 0..StaleAfter
        /\ polls[c] > 0 =>
              /\ pc[c] \in {"poll", "poll_cache", "done"}
              /\ pc[c] = "done" => path[c] = "waited"
        /\ (pc[c] = "done" /\ path[c] = "waited") =>
              polls[c] \in 1..MaxPolls
        /\ (pc[c] = "poll" /\ Live(c) /\ Settled) =>
              ENABLED (\E k \in 1..MaxPolls : Poll(c, k))
        /\ (pc[c] = "poll_cache" /\ Live(c) /\ Settled) =>
              ENABLED PollCache(c)

BoundedWaitStep ==
    \A c \in Callers :
        /\ (pc[c] = "poll" /\ pc'[c] = "done") => ret'[c] = {}
        /\ (pc[c] = "poll" /\ pc'[c] = "poll_cache") => ~progress
        /\ (pc[c] = "poll_cache" /\ pc'[c] = "done") =>
              ret'[c] = IF cached # Absent /\ cached[1] # {}
                          THEN cached[1] ELSE {}
        /\ (pc[c] \in {"poll", "poll_cache"} /\ Live(c) /\ Settled) =>
              pc'[c] \in {"poll", "poll_cache", "done", "idle"}

BoundedWait == [][BoundedWaitStep]_vars /\ []BoundedWaitInv

BoundedWaitWitness ==
    \E c \in Callers :
        /\ pc[c] = "done" /\ path[c] = "waited"
        /\ polls[c] = MaxPolls /\ ret[c] = {}

\* ------------------------------------------------------------------------
\* Properties of the store and of the merges (Part II)
\* ------------------------------------------------------------------------
\* the names of a list are pairwise different after lower-casing and trimming
NameUnique(l) ==
    \A i, j \in 1..Len(l) :
        NormalizeName(l[i].name) = NormalizeName(l[j].name) => i = j

\* C8: in every reachable state, whatever the interleaving of the runs of the
\* job, the background saves of the search requests and the enrichment
\* saves, no two records of the persisted store have names that are equal
\* after lower-casing and trimming.
StoreNameUnique == NameUnique(dbFile)

\* a value that is neither absent nor empty
NonEmptyVal(x) == x.k # "undef" /\ x.v # << >>

\* a non-empty value is kept when the incoming one is empty or absent
Kept(pre, incoming, out) == (NonEmptyVal(pre) /\ ~NonEmptyVal(incoming)) => out = pre

KeptEverywhere(m) ==
    /\ \A f \in TextFields : Kept(m.pre[f], m.data[f], m.out[f])
    /\ \A k \in ContactKeys :
          Kept(Get(m.pre.contactInfo, k), Get(m.data.contactInfo, k),
               Get(m.out.contactInfo, k))
    /\ \A k \in ProfileKeys :
          Kept(Get(m.pre.profile, k), Get(m.data.profile, k), Get(m.out.profile, k))

InterestsAccumulated ==
    \A m \in merges :
        m.kind = "existing" =>
            \E i \in 1..Len(dbFile) :
                /\ dbFile[i].id = m.pre.id
                /\ dbFile[i].interests = m.pre.interests \cup m.interests

\* C11: after a run of the job, for every record of the store a candidate of
\* the run resolved to (by id or by normalized name), the persisted records
\* of that normalized name are one record, with the identifier the record had.
IdStable ==
    \A m \in merges :
        m.kind = "existing" =>
            /\ \E i \in 1..Len(dbFile) : dbFile[i].id = m.pre.id
            /\ \A i \in 1..Len(dbFile) :
                  NormalizeName(dbFile[i].name) = NormalizeName(m.pre.name)
                      => dbFile[i].id = m.pre.id

\* ------------------------------------------------------------------------
\* Properties of the merge step (Part III)
\* ------------------------------------------------------------------------
\* the normalized names of the candidates of the last batch
BatchNames == {NormalizeName(lastBatch[i].name) : i \in 1..Len(lastBatch)}

\* the positions of the last batch whose name normalizes to nn
Occurrences(nn) == {i \in 1..Len(lastBatch) : NormalizeName(lastBatch[i].name) = nn}

\* the positions of a list of records whose name normalizes to nn
Named(l, nn) == {i \in 1..Len(l) : NormalizeName(l[i].name) = nn}

\* the names the last batch holds several times and the store did not hold
Repeated == {nn \in BatchNames : /\ Cardinality(Occurrences(nn)) > 1
                                  /\ Named(lastExisting, nn) = {}}

\* C12: a name that several candidates of a batch normalize to, and that no
\* record of the store had, is inserted once: one record created, one record
\* of that name in the persisted store and one in the returned list.
OneInsertPerName ==
    \A nn \in Repeated :
        /\ Cardinality({i \in 1..Len(inserted) : inserted[i] = nn}) = 1
        /\ Cardinality(Named(dbFile, nn)) = 1
        /\ Cardinality(Named(jobResult, nn)) = 1

OneInsertPerNameWitness ==
    /\ Repeated # {}
    /\ \E m \in merges : m.kind = "batch"

\* the last batch is two candidates of one normalized name, each with its
\* interests, from two sources, handed to the step with the store empty
PairOfSources ==
    /\ lastExisting = << >>
    /\ Len(lastBatch) = 2
    /\ NormalizeName(lastBatch[1].name) = NormalizeName(lastBatch[2].name)
    /\ lastBatch[1].source # lastBatch[2].source
    /\ lastBatch[1].interests # {} /\ lastBatch[2].interests # {}

\* C13: two candidates of one normalized name from different sources, with
\* the store empty, give one record: it has the display name of the first, a
\* bio as long as the longer of the two bios, and the union of the interests
\* of both, also when the two names are the same characters.
PairMerged ==
    PairOfSources =>
        /\ Len(dbFile) = 1
        /\ dbFile[1].name = lastBatch[1].name
        /\ Size(dbFile[1].bio) = Max(Size(lastBatch[1].bio), Size(lastBatch[2].bio))
        /\ dbFile[1].bio \in {lastBatch[1].bio, lastBatch[2].bio}
        /\ dbFile[1].interests = lastBatch[1].interests \cup lastBatch[2].interests

\* the record of the snapshot of the last step that a candidate is to resolve
\* to: the one with its id, else the first one with its normalized name
Expected(data) ==
    LET byId == {i \in 1..Len(lastExisting) :
                    lastExisting[i].id = GenerateId(data.name, data.source)}
    IN  IF byId # {} THEN First(byId)
        ELSE First(Named(lastExisting, NormalizeName(data.name)))

\* C14: a candidate whose normalized name a record of the snapshot has (the
\* same name up to case and surrounding whitespace, from whatever source) is
\* merged into the record with its id, or else into the record of that name,
\* and the run creates no record for it.
ResolvedToExisting ==
    \A k \in 1..Len(lastBatch) :
        LET data == lastBatch[k]
            nn == NormalizeName(data.name)
        IN  Named(lastExisting, nn) # {} =>
                /\ \E m \in merges : /\ m.kind = "existing"
                                      /\ m.data = data
                                      /\ m.pre = lastExisting[Expected(data)]
                /\ \A i \in 1..Len(inserted) : inserted[i] # nn
                /\ Cardinality(Named(dbFile, nn)) = Cardinality(Named(lastExisting, nn))

\* one step resolved a candidate of another spelling and one of another source
ResolvedToExistingWitness ==
    /\ \E m \in merges : /\ m.kind = "existing"
                          /\ m.data.name # m.pre.name
                          /\ m.data.source = m.pre.source
    /\ \E m \in merges : /\ m.kind = "existing"
                          /\ m.data.name = m.pre.name
                          /\ m.data.source # m.pre.source

\* ------------------------------------------------------------------------
\* Properties of the results and failures of a run (Part I)
\* ------------------------------------------------------------------------
\* the records a run can add or update: those of the answers of the source
Touched == UNION {UNION Batches(c) : c \in Callers}

\* C15: a value returned by runScrapingJob, on whatever path, holds only
\* records that a run added or updated, never a record of the store that no
\* run touched.
ReturnsOnlyTouched == \A c \in Callers : ret[c] \subseteq Touched

\* positions of a run before the answer of the source is in
BeforeFetchPcs == {"lock_setex", "lock_stamp", "lock_skip", "run_begin", "scraping"}

\* C16: a run whose fetch is empty leaves the store and the cached canonical
\* set as they are at each of its steps, resolves to the empty list, resets
\* the in-memory state of its process and deletes the lock.
EmptyFetchNoOpStep ==
    \A c \in Callers :
        (pc'[c] # pc[c] /\ alive'[ProcOf(c)]) =>
            /\ pc[c] \in BeforeFetchPcs => (store' = store /\ cached' = cached)
            /\ (pc[c] = "fetched" /\ scraped[c] = {}) =>
                  /\ store' = store /\ cached' = cached
                  /\ pc'[c] = "unlock" /\ path'[c] = "empty" /\ result'[c] = {}
                  /\ ~isRunning'[ProcOf(c)]
                  /\ runningQuery'[ProcOf(c)] = Null
                  /\ runningPromise'[ProcOf(c)] = Null
            /\ (pc[c] = "unlock" /\ path[c] = "empty") =>
                  /\ store' = store /\ cached' = cached
                  /\ pc'[c] = "done" /\ ret'[c] = {}
                  /\ ~lockFlag'

EmptyFetchNoOp == [][EmptyFetchNoOpStep]_vars

EmptyFetchNoOpWitness ==
    \E c \in Callers :
        /\ pc[c] = "done" /\ path[c] = "empty" /\ ret[c] = {}
        /\ ~lockFlag /\ ~isRunning[ProcOf(c)]

\* C17: a step of a run in which an exception occurs between the fetch and
\* the return leaves the persisted store as it was and takes the run to its
\* catch block, and the run then resolves to the empty list.
FailureAtomicStep ==
    \A c \in Callers :
        /\ (PersistThrows(c) \/ PersistReadFails(c)) =>
                (store' = store /\ pc'[c] = "catch")
        /\ Catch(c) => (store' = store /\ result'[c] = {})
        /\ (Unlock(c) /\ path[c] = "failed") => (store' = store /\ ret'[c] = {})

FailureAtomic == [][FailureAtomicStep]_vars

\* the records of this part: the one the store starts with and the ones the
\* source may answer with
AllRecords == store \cup Touched \cup {"n0"}

\* C18: whatever fails (the commands sent to Redis, the store, the source),
\* a finished call of runScrapingJob has resolved to a list, a caller that
\* awaited the run of another call included, and a finished search request
\* has answered with a list.
NoEscape ==
    /\ \A c \in Callers :
          pc[c] = "done" =>
              /\ ret[c] \in SUBSET AllRecords
              /\ path[c] = "failed" => ret[c] = {}
              /\ (path[c] = "joined" /\ path[awaiting[c]] = "failed") => ret[c] = {}
    /\ getPc = "done" => response \in SUBSET AllRecords

\* with the commands sent to Redis failing, a caller has awaited a run whose
\* store threw, and both have resolved to the empty list
NoEscapeWitness ==
    \E c \in Callers :
        /\ ~redisUp
        /\ pc[c] = "done" /\ path[c] = "joined" /\ ret[c] = {}
        /\ pc[awaiting[c]] = "done" /\ path[awaiting[c]] = "failed"

\* C19: a step of a call taken while the commands sent to Redis fail leaves
\* every key as it was, reads the lock as free, the recorded time and the
\* cached set as absent, and takes the call where a miss takes it; a run with
\* a non-empty fetch goes on to merge, to persist the batch on top of the
\* store and to return the records of the batch.
BestEffortStep ==
    \A c \in Callers :
        (~redisUp /\ pc'[c] # pc[c]) =>
            /\ UNCHANGED redisVars
            /\ pc[c] = "chk_lock" => (pc'[c] = "chk_mem" /\ redisLocked'[c] = "free")
            /\ pc[c] = "chk_last" => (pc'[c] = "clr" /\ sinceLast'[c] = NoStamp)
            /\ pc[c] = "poll" => pc'[c] = "poll_cache"
            /\ pc[c] = "poll_cache" => (pc'[c] = "done" /\ ret'[c] = {})
            /\ pc[c] = "lock_setex" => pc'[c] = "lock_skip"
            /\ pc[c] = "lock_skip" => pc'[c] = "run_begin"
            /\ pc[c] = "run_begin" => pc'[c] = "scraping"
            /\ pc[c] = "scraping" => pc'[c] = "fetched"
            /\ (pc[c] = "fetched" /\ scraped[c] # {}) => pc'[c] = "merge"
            /\ (pc[c] = "merge" /\ Persist(c)) =>
                   /\ store' = store \cup scraped[c]
                   /\ result'[c] = scraped[c] /\ result'[c] # {}
                   /\ pc'[c] = "invalidate"
            /\ pc[c] = "invalidate" => pc'[c] = "recache"
            /\ pc[c] = "recache" => pc'[c] = "final_progress"
            /\ pc[c] = "final_progress" => pc'[c] = "final_clear"
            /\ pc[c] = "final_clear" => (pc'[c] = "unlock" /\ path'[c] = "ok")
            /\ pc[c] = "unlock" => (pc'[c] = "done" /\ ret'[c] = result[c])

BestEffort == [][BestEffortStep]_vars

\* a run has persisted and returned its batch and no key of Redis was ever
\* written
BestEffortWitness ==
    \E c \in Callers :
        /\ ~redisUp
        /\ pc[c] = "done" /\ path[c] = "ok" /\ ret[c] # {} /\ ret[c] \subseteq store
        /\ ~lockFlag /\ lastAge = NoStamp /\ ~progress /\ cached = Absent

\* C20: when the runs of two processes overlap, the write of a run keeps
\* every record the store holds, so that the store ends with the records of
\* both runs.
RaceKeepsAllStep == \A c \in Callers : WriteStore(c) => store \subseteq store'

RaceKeepsAll == [][RaceKeepsAllStep]_vars

(***************************************************************************)
(* Part IV.  The search request in detail                                  *)
(*   src/app/api/search/route.ts:14-78, 140-175, 177-484 and               *)
(*   src/lib/investor-utils.ts (src/unnamed/part_010:111-152).             *)
(*   One request per behaviour; in this part the canonical-set cache and   *)
(*   the per-query cache hold lists of records, and an interest is a text. *)
(***************************************************************************)

\* ------------------------------------------------------------------------
\* String.prototype.includes, split(/\s+/), join(" "), slice(0, n)
\* ------------------------------------------------------------------------
Includes(s, sub) ==
    \E i \in 0..(Len(s) - Len(sub)) : SubSeq(s, i + 1, i + Len(sub)) = sub

\* the words of s: its maximal runs without a blank; the empty strings that
\* split yields at the ends do not pass the filter of line 18
RECURSIVE WordsFrom(_, _, _)
WordsFrom(s, cur, acc) ==
    IF s = << >> THEN (IF cur = << >> THEN acc ELSE Append(acc, cur))
    ELSE IF Head(s) = " "
      THEN WordsFrom(Tail(s), << >>, IF cur = << >> THEN acc ELSE Append(acc, cur))
    ELSE WordsFrom(Tail(s), Append(cur, Head(s)), acc)

Words(s) == WordsFrom(s, << >>, << >>)

RECURSIVE JoinBlank(_)
JoinBlank(l) ==
    IF l = << >> THEN << >>
    ELSE IF Len(l) = 1 THEN l[1]
    ELSE l[1] \o << " " >> \o JoinBlank(Tail(l))

Slice(l, n) == SubSeq(l, 1, Min(Len(l), n))

\* route.ts:22, 379, 403, 425, 466 : slice(0, 50)
MaxReturned == 50

\* ------------------------------------------------------------------------
\* route.ts:14-78 matchInvestorsByKeywords
\* ------------------------------------------------------------------------
\* line 18: the words of the lowered query that are longer than 2
MinKeyword == 2
Keywords(q) == SelectSeq(Words(ToLower(q)), LAMBDA w : Len(w) > MinKeyword)

\* (investor.bio || "")
TextOf(x) == IF Truthy(x) THEN x.v ELSE << >>

InterestsLower(inv) == [i \in 1..Len(inv.interests) |-> ToLower(inv.interests[i])]

\* lines 27-31
FullText(inv) ==
    ToLower(inv.name) \o << " " >> \o ToLower(TextOf(inv.bio)) \o << " " >>
        \o ToLower(TextOf(inv.location)) \o << " " >> \o JoinBlank(InterestsLower(inv))

Count(S) == Cardinality(S)

\* lines 42-46: the name against the whole query
NameScore(inv, q) ==
    IF ToLower(inv.name) = ToLower(q) THEN 100
    ELSE IF Includes(ToLower(inv.name), ToLower(q)) \/ Includes(ToLower(q), ToLower(inv.name))
      THEN 50
    ELSE 0

\* lines 49-56: every keyword against the name and against the full text
KeywordScore(inv, q) ==
    LET kw == Keywords(q)
    IN  5 * Count({k \in 1..Len(kw) : Includes(ToLower(inv.name), kw[k])})
        + Count({k \in 1..Len(kw) : Includes(FullText(inv), kw[k])})

\* lines 59-70: every interest against the whole query and against the keywords
InterestScore(inv, q) ==
    LET kw == Keywords(q)
        il == InterestsLower(inv)
    IN  3 * Count({i \in 1..Len(il) :
                     Includes(ToLower(q), il[i]) \/ Includes(il[i], ToLower(q))})
        + 2 * Count({ik \in (1..Len(il)) \X (1..Len(kw)) :
                     Includes(il[ik[1]], kw[ik[2]]) \/ Includes(kw[ik[2]], il[ik[1]])})

Score(inv, q) == NameScore(inv, q) + KeywordScore(inv, q) + InterestScore(inv, q)

\* line 75: sort((a, b) => b.score - a.score), which keeps the order of equals
RECURSIVE SortByScore(_, _)
SortByScore(l, q) ==
    IF l = << >> THEN << >>
    ELSE LET rest == SortByScore(SubSeq(l, 1, Len(l) - 1), q)
             x == l[Len(l)]
             k == Count({i \in 1..Len(rest) : Score(rest[i], q) >= Score(x, q)})
         IN  SubSeq(rest, 1, k) \o << x >> \o SubSeq(rest, k + 1, Len(rest))

\* variant: the scored records are not sorted
MatchUnsorted(investors, q) ==
    IF investors = << >> THEN << >>
    ELSE IF Keywords(q) = << >>
      THEN (IF Len(q) > MinKeyword THEN Slice(investors, MaxReturned) ELSE << >>)
    ELSE SelectSeq(investors, LAMBDA inv : Score(inv, q) > 0)

\* lines 14-78
MatchInvestorsByKeywords(investors, q) ==
    IF investors = << >> THEN << >>
    ELSE IF Keywords(q) = << >>
      THEN (IF Len(q) > MinKeyword THEN Slice(investors, MaxReturned) ELSE << >>)
    ELSE SortByScore(SelectSeq(investors, LAMBDA inv : Score(inv, q) > 0), q)

\* ------------------------------------------------------------------------
\* part_010:111-152 deduplicateInvestors with its two counters
\* ------------------------------------------------------------------------
\* variant: the records without a name are not counted
InvalidUncounted(l) == 0

\* lines 122-131: no name, or a name that normalizes to ""
InvalidRemoved(l) == Count({i \in 1..Len(l) : NormalizeName(l[i].name) = << >>})

\* variant: every record after the first counts as a duplicate
DuplicatesAfterFirst(l) == IF Len(l) > 0 THEN Len(l) - 1 ELSE 0

\* lines 133-137: the name has been met before
DuplicatesRemoved(l) ==
    Count({i \in 1..Len(l) :
             /\ NormalizeName(l[i].name) # << >>
             /\ \E j \in 1..(i - 1) : NormalizeName(l[j].name) = NormalizeName(l[i].name)})

DeduplicateResult(l) ==
    [unique |-> DeduplicateInvestors(l),
     duplicatesRemoved |-> DuplicatesRemoved(l),
     invalidRemoved |-> InvalidRemoved(l)]

\* ------------------------------------------------------------------------
\* The records and the queries the functions are applied to
\* ------------------------------------------------------------------------
AiMl == << "A", "I", "/", "M", "L" >>
Bio == << "b", "i", "o" >>
Blank == << " " >>

\* a stored record with the interests given as texts
Tagged(n, tags) ==
    [id |-> GenerateId(n, OpenAISearch), name |-> n,
     bio |-> Str(<< "x" >>), fullBio |-> Undef, location |-> Undef, image |-> Undef,
     interests |-> tags, profile |-> EmptyObj, contactInfo |-> EmptyObj,
     source |-> OpenAISearch, scrapedAt |-> 0, lastUpdated |-> 0]

TaggedRecords == {Tagged(Ann, << AiMl >>), Tagged(Bob, << Bio >>), Tagged(Bob, << >>)}

Queries == { << "a", "i" >>, << "A", "n", "n" >>, << "a", " ", "b" >>,
             << "b", "i", "o" >>, << "a", "i", "/", "m", "l" >>,
             << "a", "n", "n", " ", "b", "i", "o" >> }

\* stored records of every completeness, with a name that is missing or blank
DedupRecords ==
    {NewFromSearch(c) : c \in Candidates} \cup
    {NewFromSearch(Light(<< >>)), NewFromSearch(Rich(Blank))}

\* the longest list a function is applied to
MaxList == 4

ListsOf(S) == UNION {[1..n -> S] : n \in 0..MaxList}

\* a candidate with a fullBio of two characters, a stage and a check size
Partial(n) ==
    [name |-> n, source |-> OpenAISearch,
     bio |-> Str(<< "x" >>), fullBio |-> Str(<< "f", "f" >>),
     location |-> Undef, image |-> Undef,
     contactInfo |-> EmptyObj, interests |-> {"i1"},
     profile |-> [k \in {"investmentStage", "checkSize"} |->
                    IF k = "investmentStage" THEN Arr(<< "s" >>) ELSE Str(<< "c" >>)]]

\* the records enrichInvestorProfile is handed: as the job stored them
EnrichRecords ==
    {JsonRec(NewInvestor(c, c.interests)) : c \in Candidates \cup {Partial(Ann)}}

\* what the completion may answer (scraper.ts:909-911): as in Part II, or a
\* shorter fullBio with an empty list and an empty text
EnrichAnswers ==
    EnrichResults \cup
    { [fullBio |-> Str(<< "g" >>),
       profile |-> [k \in {"investmentStage", "checkSize"} |->
                      IF k = "investmentStage" THEN Arr(<< >>) ELSE Str(<< >>)]],
      [fullBio |-> Str(<< >>), profile |-> [k \in {"network"} |-> Str(<< "n" >>)]] }

FnInputs ==
    {[fn |-> "match", investors |-> l, q |-> q] : l \in ListsOf(TaggedRecords), q \in Queries}
    \cup {[fn |-> "dedup", investors |-> l] : l \in ListsOf(DedupRecords)}
    \cup {[fn |-> "enrich", investor |-> r, enriched |-> e] :
              r \in EnrichRecords, e \in EnrichAnswers}

\* ------------------------------------------------------------------------
\* A function applied alone
\* ------------------------------------------------------------------------
partOneVars == << redisVars, store, memVars, alive, frames, redisUp, getPc, response,
                  pc, nq, awaiting, polls, runVars, ret, path, histVars >>

ApplyMatch ==
    /\ fnIn.fn = "match" /\ fnOut = << >>
    /\ fnOut' = << MatchInvestorsByKeywords(fnIn.investors, fnIn.q) >>
    /\ UNCHANGED << partOneVars, dataVars, query, queryEntry, cachedResults, fnIn, clock >>

ApplyDedup ==
    /\ fnIn.fn = "dedup" /\ fnOut = << >>
    /\ fnOut' = << DeduplicateResult(fnIn.investors) >>
    /\ UNCHANGED << partOneVars, dataVars, query, queryEntry, cachedResults, fnIn, clock >>

\* deduplicateInvestors applied to the list it has returned
ApplyDedupAgain ==
    /\ fnIn.fn = "dedup" /\ Len(fnOut) = 1
    /\ fnOut' = Append(fnOut, DeduplicateResult(fnOut[1].unique))
    /\ UNCHANGED << partOneVars, dataVars, query, queryEntry, cachedResults, fnIn, clock >>

\* scraper.ts:820-935 : enrichInvestorProfile up to the save
ApplyEnrich ==
    /\ fnIn.fn = "enrich" /\ fnOut = << >>
    /\ fnOut' = << EnrichInvestorProfile(fnIn.investor, fnIn.enriched) >>
    /\ UNCHANGED << partOneVars, dataVars, query, queryEntry, cachedResults, fnIn, clock >>

NextPure == ApplyMatch \/ ApplyDedup \/ ApplyDedupAgain \/ ApplyEnrich

InitPure ==
    /\ clock = 0
    /\ CoordRest /\ redisUp = TRUE /\ cached = Absent /\ frames = {"a", "b"} /\ DataInit
    /\ query = << >> /\ queryEntry = NoEntry /\ cachedResults = Unread
    /\ fnIn \in FnInputs /\ fnOut = << >>

SpecPure == InitPure /\ [][NextPure]_vars

\* ------------------------------------------------------------------------
\* route.ts:140-175 : the cache of the query
\* ------------------------------------------------------------------------
\* the text stored under search:<query>: the serialization of a bare list of
\* records, of an object holding the list under investors (with or without
\* aiResponse), of an object without investors, or a text that does not parse
ListEntry(l) == [shape |-> "list", investors |-> l]
ObjectEntry(l, ai) == [shape |-> "object", investors |-> l, aiResponse |-> ai]
OtherEntry == [shape |-> "other"]
Garbage == [shape |-> "garbage"]

\* the values JSON.parse yields here, and null
JsNull == [k |-> "null"]
JsObj(l, ai) == [k |-> "obj", investors |-> l, aiResponse |-> ai]
JsEmptyObj == [k |-> "obj"]

\* safeJsonParse of @/lib/utils (route.ts:143, 151): the fallback for no
\* data and for a text that does not parse
SafeJsonParse(data, fallback) ==
    IF data = NoEntry \/ data.shape = "garbage" THEN fallback
    ELSE IF data.shape = "list" THEN Arr(data.investors)
    ELSE IF data.shape = "object" THEN JsObj(data.investors, data.aiResponse)
    ELSE JsEmptyObj

\* variant: a bare list is not adapted
KeepParsed(parsed) == parsed

\* route.ts:152-156 : a bare list is wrapped
Adapt(parsed) == IF parsed.k = "arr" THEN JsObj(parsed.v, FALSE) ELSE parsed

\* route.ts:141-159 : no client or a failing GET reads as null
GetCachedQueryResults(entry) ==
    IF ~redisUp \/ entry = NoEntry THEN JsNull
    ELSE Adapt(SafeJsonParse(entry, JsNull))

\* route.ts:397, 458 : cachedResults && cachedResults.investors && length > 0
HasRecords(r) == r.k = "obj" /\ "investors" \in DOMAIN r /\ Len(r.investors) > 0

\* ------------------------------------------------------------------------
\* route.ts:177-484 : the request, one per behaviour
\* ------------------------------------------------------------------------
EntryLists == { << >>, << Tagged(Ann, << AiMl >>) >>,
                << Tagged(Ann, << AiMl >>), Tagged(Bob, << Bio >>) >> }

Entries == {NoEntry, Garbage, OtherEntry}
           \cup {ListEntry(l) : l \in EntryLists}
           \cup {ObjectEntry(l, ai) : l \in EntryLists, ai \in BOOLEAN}

\* the parameter q: absent, of two characters, an interest, a word of a bio
RequestQueries == { << >>, << "a", "i" >>, << "a", "i", "/", "m", "l" >>,
                    << "b", "i", "o" >> }

CanonLists == { << >>, << Tagged(Ann, << AiMl >>) >>,
                << Tagged(Bob, << Bio >>), Tagged(Ann, << AiMl >>) >> }

searchFrame == << lockFlag, lockTtl, lockOwner, lastAge, store, memVars, alive, frames,
                  redisUp, pc, nq, awaiting, polls, runVars, ret, path, histVars,
                  fnIn, fnOut, clock, query, jobPc, scrapedData, existingInvestors,
                  srchPc, srchExisting, finalInvestors, enrPc, enrInvestor, opsDone,
                  unitVars >>

\* the body of the response
Body(investors, total, fromCache) ==
    [investors |-> Slice(investors, MaxReturned), total |-> total, cached |-> fromCache]

\* lines 181-183 : no query
HandleNoQuery ==
    /\ getPc = "idle" /\ query = << >>
    /\ getPc' = "done"
    /\ response' = Body(<< >>, 0, FALSE)
    /\ UNCHANGED << progress, cached, queryEntry, cachedResults, dbFile,
                    investorsCache, merges, searchFrame >>

\* lines 185-208 : setProgress, then the generative source is asked
HandleAsk ==
    /\ getPc = "idle" /\ query # << >>
    /\ getPc' = "asked"
    /\ progress' = Written(TRUE, progress)
    /\ UNCHANGED << response, cached, queryEntry, cachedResults, dbFile,
                    investorsCache, merges, searchFrame >>

\* lines 214-391 : the source answers with candidates; they are converted
\* against getAllInvestorsSync() and deduplicated, the result is stored under
\* search:<query> and returned; the background save, where a failure is
\* caught, writes the store and then investors:all
HandleFresh(batch, ai, saved) ==
    LET existing == GetAllInvestorsSync
        final == DeduplicateInvestors(ConvertSearch(batch, existing))
        all == UpsertAll(existing, final)
    IN  /\ getPc = "asked"
        /\ getPc' = "done"
        /\ response' = Body(final, Len(final), FALSE)
        /\ progress' = Written(FALSE, progress)
        /\ queryEntry' = Written(ObjectEntry(final, ai), queryEntry)
        /\ IF saved /\ final # << >>
             THEN /\ dbFile' = JsonList(SaveInvestorsSync(all))
                  /\ investorsCache' = << SaveInvestorsSync(all) >>
                  /\ merges' = {}
                  /\ cached' = Written(CacheOf(all), cached)
             ELSE UNCHANGED << dbFile, investorsCache, merges, cached >>
        /\ UNCHANGED << cachedResults, searchFrame >>

\* lines 393-449 : the source answers with nothing; the cache of the query,
\* then a keyword match on investors:all, whose result is stored under
\* search:<query>, then the empty list
HandleFallback ==
    LET r == GetCachedQueryResults(queryEntry)
        canon == IF CachedSeen = Absent THEN << >> ELSE CachedSeen[1]
        matched == MatchInvestorsByKeywords(canon, query)
    IN  /\ getPc = "asked"
        /\ getPc' = "done"
        /\ cachedResults' = r
        /\ IF HasRecords(r)
             THEN /\ response' = Body(DeduplicateInvestors(r.investors),
                                      Len(DeduplicateInvestors(r.investors)), TRUE)
                  /\ UNCHANGED queryEntry
             ELSE IF matched # << >>
               THEN /\ response' = Body(DeduplicateInvestors(matched),
                                        Len(DeduplicateInvestors(matched)), TRUE)
                    /\ queryEntry' =
                          Written(ObjectEntry(DeduplicateInvestors(matched), FALSE),
                                  queryEntry)
             ELSE /\ response' = Body(<< >>, 0, FALSE)
                  /\ UNCHANGED queryEntry
        /\ UNCHANGED << progress, cached, dbFile, investorsCache, merges, searchFrame >>

\* lines 451-483 : an exception of the try block is caught; the answer is
\* the cache of the query when it holds records, else the empty list
HandleCatch ==
    LET r == GetCachedQueryResults(queryEntry)
    IN  /\ getPc = "asked"
        /\ getPc' = "done"
        /\ cachedResults' = r
        /\ response' = IF HasRecords(r) THEN Body(r.investors, Len(r.investors), TRUE)
                       ELSE Body(<< >>, 0, FALSE)
        /\ UNCHANGED << progress, cached, queryEntry, dbFile, investorsCache, merges,
                        searchFrame >>

NextSearch ==
    \/ HandleNoQuery
    \/ HandleAsk
    \/ \E batch \in RawBatches : \E ai, saved \in BOOLEAN : HandleFresh(batch, ai, saved)
    \/ HandleFallback
    \/ HandleCatch

InitSearch ==
    /\ CoordRest /\ frames = {"a", "b"} /\ DataInit
    /\ redisUp \in BOOLEAN
    /\ cached \in {Absent} \cup {CacheOf(l) : l \in CanonLists}
    /\ query \in RequestQueries
    /\ queryEntry \in Entries
    /\ cachedResults = Unread
    /\ fnIn = NoInput /\ fnOut = << >>
    /\ clock = 0

SpecSearch == InitSearch /\ [][NextSearch]_vars

\* ------------------------------------------------------------------------
\* Properties of the record store and of the search request
\* ------------------------------------------------------------------------
\* the normalized names of a list of records
NamesOf(l) == {NormalizeName(l[i].name) : i \in 1..Len(l)}

\* C21: no operation of the process (a run of the job, the background save
\* of a search request, the save of an enrichment) removes a normalized name
\* from the persisted store.
NeverDeletes == [][NamesOf(dbFile) \subseteq NamesOf(dbFile')]_vars

\* C22: whatever was written last to the persisted store, by a save of db.ts
\* or by a run of the job, is what getAllInvestorsSync answers next (up to
\* the serialization of the records).
ReadYourWrites == JsonList(GetAllInvestorsSync) = dbFile

\* C23 as stated: in a successful run the canonical-set cache is deleted and
\* then set to the list the run has just written to the store, and when the
\* run returns with Redis reachable the canonical-set cache holds the
\* persisted store.
CacheRefreshAlwaysStep ==
    \A c \in Callers :
        /\ (pc[c] = "invalidate" /\ pc'[c] = "recache" /\ redisUp)
               => cached' = Absent
        /\ (pc[c] = "recache" /\ pc'[c] = "final_progress" /\ redisUp)
               => cached' = CacheOf(allInv[c])
        /\ (pc[c] = "unlock" /\ pc'[c] # "unlock" /\ path[c] = "ok" /\ redisUp)
               => cached = CacheOf(store)
CacheRefreshAlways == [][CacheRefreshAlwaysStep]_vars

\* C23: in a successful run the list kept for the cache is the list the run
\* writes to the store, and the canonical-set cache is first deleted and then
\* set to that list: with Redis reachable the cache holds, right after the
\* set, the list this run has persisted.
CacheRefreshStep ==
    \A c \in Callers :
        /\ (pc[c] = "merge" /\ pc'[c] = "invalidate")
               => (allInv'[c] = store' /\ cached' = cached)
        /\ (pc[c] = "invalidate" /\ pc'[c] = "recache" /\ redisUp)
               => (cached' = Absent /\ allInv'[c] = allInv[c])
        /\ (pc[c] = "recache" /\ pc'[c] = "final_progress" /\ redisUp)
               => cached' = CacheOf(allInv[c])
CacheRefresh == [][CacheRefreshStep]_vars
CacheRefreshWitness ==
    \E c \in Callers : /\ pc[c] = "final_progress" /\ redisUp
                       /\ cached = CacheOf(store) /\ result[c] # {}

\* scrape:lock is set and was set by a call of process p
HoldsLock(p) == lockFlag /\ lockOwner # Null /\ ProcOf(lockOwner) = p

\* C24: every write of the persisted canonical set, by a run of the job or
\* by the background save of a search request, is made while scrape:lock is
\* set and was set by the writing process.
LockGuardsStoreStep ==
    /\ \A c \in Callers :
           (pc[c] = "merge" /\ pc'[c] = "invalidate") => HoldsLock(ProcOf(c))
    /\ (getPc = "asked" /\ getPc' = "done" /\ store' # store) => HoldsLock("p1")
LockGuardsStore == [][LockGuardsStoreStep]_vars

\* C25: a request whose query has an entry with records in the cache of the
\* query is answered at once with these records (50 at most), marked as
\* served from the cache, and the generative source is not asked.
CacheFirstStep ==
    (getPc = "idle" /\ query # << >> /\ HasRecords(GetCachedQueryResults(queryEntry)))
        => /\ getPc' = "done"
           /\ response' = Body(GetCachedQueryResults(queryEntry).investors,
                               Len(GetCachedQueryResults(queryEntry).investors), TRUE)
CacheFirst == [][CacheFirstStep]_vars

\* the records of investors:all one of whose interests contains the query
TagMatches ==
    IF cached = Absent THEN {}
    ELSE {cached[1][i] : i \in {j \in 1..Len(cached[1]) :
              \E t \in 1..Len(cached[1][j].interests) :
                  Includes(ToLower(cached[1][j].interests[t]), ToLower(query))}}

\* search:<query> holds no records and an interest of investors:all
\* contains the query
FastPathCase ==
    /\ redisUp /\ query # << >>
    /\ ~HasRecords(GetCachedQueryResults(queryEntry))
    /\ TagMatches # {}

\* C26: a request whose query has no records in the cache of the query, while
\* an interest of a record of investors:all contains the query, is answered
\* from the keyword match with that record, also for a query of one or two
\* characters, and the generative source is not asked.
KeywordFastPathStep ==
    (getPc = "idle" /\ FastPathCase)
        => /\ getPc' = "done"
           /\ \A inv \in TagMatches :
                 \E i \in 1..Len(response'.investors) : response'.investors[i] = inv
KeywordFastPath == [][KeywordFastPathStep]_vars

\* ------------------------------------------------------------------------
\* Properties of the functions applied alone
\* ------------------------------------------------------------------------
\* the records of l all score more than zero and are in non-increasing order
ScoredAndSorted(l, q) ==
    /\ \A i \in 1..Len(l) : Score(l[i], q) > 0
    /\ \A i, j \in 1..Len(l) : i < j => Score(l[i], q) >= Score(l[j], q)

\* no name match, no keyword hit, no interest overlap
Unrelated(inv, q) ==
    NameScore(inv, q) = 0 /\ KeywordScore(inv, q) = 0 /\ InterestScore(inv, q) = 0

\* C27 as stated: for every query and every list, matchInvestorsByKeywords
\* returns only records that score more than zero, in non-increasing order
\* of score, and never a record with no name match, no keyword hit and no
\* interest overlap.
MatchScoredAlways ==
    (fnIn.fn = "match" /\ fnOut # << >>)
        => /\ ScoredAndSorted(fnOut[1], fnIn.q)
           /\ \A i \in 1..Len(fnOut[1]) : ~Unrelated(fnOut[1][i], fnIn.q)

\* C27: for a query with a word longer than two characters the result holds
\* only records that score more than zero, in non-increasing order of score,
\* and never a record with no name match, no keyword hit and no interest
\* overlap; for a query without such a word the result is not scored: it is
\* empty when the query has at most two characters, else the first 50 records
\* of the list in their order.
MatchScored ==
    (fnIn.fn = "match" /\ fnOut # << >>)
        => IF Keywords(fnIn.q) # << >>
             THEN /\ ScoredAndSorted(fnOut[1], fnIn.q)
                  /\ \A i \in 1..Len(fnOut[1]) : ~Unrelated(fnOut[1][i], fnIn.q)
           ELSE IF Len(fnIn.q) <= MinKeyword THEN fnOut[1] = << >>
           ELSE fnOut[1] = Slice(fnIn.investors, MaxReturned)
MatchScoredWitness ==
    /\ fnIn.fn = "match" /\ fnOut # << >> /\ Keywords(fnIn.q) # << >>
    /\ Len(fnOut[1]) >= 2 /\ Len(fnOut[1]) < Len(fnIn.investors)
    /\ Score(fnOut[1][1], fnIn.q) > Score(fnOut[1][2], fnIn.q)
    /\ fnOut[1] # SelectSeq(fnIn.investors, LAMBDA inv : Score(inv, fnIn.q) > 0)

\* ------------------------------------------------------------------------
\* Properties of the cache of the query
\* ------------------------------------------------------------------------
\* C28: when the handler reads search:<query> with Redis reachable, an entry
\* stored as a bare list of records reads as the object holding that list
\* under investors, exactly as the object form of the same list reads, and an
\* entry that does not parse reads as a miss; the handler answers in both
\* cases.
LegacyShapeStep ==
    (cachedResults = Unread /\ cachedResults' # Unread /\ redisUp)
        => /\ getPc' = "done" /\ response'.total >= 0
           /\ queryEntry.shape = "list"
                => /\ cachedResults' = JsObj(queryEntry.investors, FALSE)
                   /\ cachedResults' =
                          GetCachedQueryResults(ObjectEntry(queryEntry.investors, FALSE))
           /\ queryEntry.shape = "garbage"
                => /\ cachedResults' = JsNull
                   /\ cachedResults' = GetCachedQueryResults(NoEntry)
LegacyShape == [][LegacyShapeStep]_vars
LegacyShapeWitness ==
    /\ getPc = "done" /\ redisUp /\ queryEntry.shape = "list"
    /\ cachedResults = JsObj(queryEntry.investors, FALSE)
    /\ response.cached /\ response.investors = queryEntry.investors

\* ------------------------------------------------------------------------
\* Properties of deduplicateInvestors
\* ------------------------------------------------------------------------
\* C29: deduplicateInvestors applied to the unique list it has returned
\* returns the same list in the same order, with duplicatesRemoved = 0 and
\* invalidRemoved = 0.
DedupIdempotent ==
    (fnIn.fn = "dedup" /\ Len(fnOut) = 2)
        => /\ fnOut[2].unique = fnOut[1].unique
           /\ fnOut[2].duplicatesRemoved = 0
           /\ fnOut[2].invalidRemoved = 0
DedupIdempotentWitness ==
    /\ fnIn.fn = "dedup" /\ Len(fnOut) = 2
    /\ fnOut[1].duplicatesRemoved > 0 /\ fnOut[1].invalidRemoved > 0
    /\ Len(fnOut[2].unique) >= 2

\* the valid inputs of a normalized name, by position
ValidNames(l) == {NormalizeName(l[i].name) : i \in 1..Len(l)} \ {<< >>}
InputsOf(l, nn) == {i \in 1..Len(l) : NormalizeName(l[i].name) = nn}

\* the earliest input of the name among those of the greatest completeness
Winner(l, nn) ==
    LET best == {i \in InputsOf(l, nn) :
                    \A j \in InputsOf(l, nn) : Completeness(l[j]) <= Completeness(l[i])}
    IN  l[CHOOSE i \in best : \A j \in best : i <= j]

\* C30: the result of deduplicateInvestors holds exactly one record per
\* normalized name of the valid inputs, which is the earliest input of the
\* greatest completeness among the inputs of that name; the inputs whose name
\* is missing or blank are left out and counted in invalidRemoved.
DedupWinner ==
    (fnIn.fn = "dedup" /\ Len(fnOut) >= 1)
        => LET l == fnIn.investors
               u == fnOut[1].unique
           IN  /\ \A nn \in ValidNames(l) :
                      /\ Cardinality(InputsOf(u, nn)) = 1
                      /\ \A i \in InputsOf(u, nn) : u[i] = Winner(l, nn)
               /\ Len(u) = Cardinality(ValidNames(l))
               /\ fnOut[1].invalidRemoved = Cardinality(InputsOf(l, << >>))
DedupWinnerWitness ==
    /\ fnIn.fn = "dedup" /\ Len(fnOut) >= 1
    /\ fnOut[1].invalidRemoved > 0
    /\ \E i, j \in 1..Len(fnIn.investors) :
          /\ i < j /\ fnIn.investors[i] # fnIn.investors[j]
          /\ NormalizeName(fnIn.investors[i].name) = NormalizeName(fnIn.investors[j].name)
          /\ Completeness(fnIn.investors[i]) = Completeness(fnIn.investors[j])
          /\ fnIn.investors[i] \in {fnOut[1].unique[k] : k \in 1..Len(fnOut[1].unique)}

\* ------------------------------------------------------------------------
\* Part V (SpecRuns): successful runs of the job one after another
\*   src/lib/scraper-job.ts:100-392.  The runs do not overlap; each reads
\*   the clock once (line 129) and time passes between two runs.
\* ------------------------------------------------------------------------
\* the runs of a behaviour
MaxRuns == 3

\* scraper.ts:419-428 : the batches scrapeInvestors hands to the job, of
\* either source
RunBatches == {ScrapeDedup(batch) : batch \in UnitBatches}

\* scraper-job.ts:100-392 : a run from the adapter's answer to the returned
\* list; ai is the outcome of extractInterestsBatch, consulted only when a
\* candidate has no interests
RunJob(batch, ai) ==
    /\ clock < MaxRuns
    /\ batch # << >>
    /\ ai = NoAi \/ \E i \in 1..Len(batch) : batch[i].interests = {}
    /\ LET conv == Converted(batch, dbFile, ai)
       IN  /\ dbFile' = JsonList(AllInvestors(dbFile, conv.new))
           /\ merges' = conv.notes
           /\ inserted' = conv.inserted
           /\ jobResult' = ReturnedInvestors(conv.new)
    /\ lastBatch' = batch
    /\ lastExisting' = dbFile
    /\ lastAi' = ai
    /\ opsDone' = opsDone + 1
    /\ clock' = clock + 1
    /\ UNCHANGED << partOneVars, query, queryEntry, cachedResults, fnIn, fnOut,
                    investorsCache, jobPc, scrapedData, existingInvestors,
                    srchPc, srchExisting, finalInvestors, enrPc, enrInvestor >>

NextRuns == \E batch \in RunBatches : \E ai \in AiOutcomes : RunJob(batch, ai)

InitRuns == CoordInit /\ frames = {"a", "b"} /\ DataInit

SpecRuns == InitRuns /\ [][NextRuns]_vars

\* ------------------------------------------------------------------------
\* Properties of the runs in sequence (Part V)
\* ------------------------------------------------------------------------
\* the positions of the store that hold the record of an id
WithId(l, id) == {i \in 1..Len(l) : l[i].id = id}

\* C31: every record a run merges a candidate into is in the store after
\* the run, with lastUpdated the time the run read and scrapedAt as it was
\* before the run; and the scrapedAt of a stored record is the same after
\* any run.
TimestampsStep ==
    /\ \A m \in merges' :
          m.kind = "existing" =>
              /\ WithId(dbFile', m.pre.id) # {}
              /\ \A i \in WithId(dbFile', m.pre.id) :
                    /\ dbFile'[i].lastUpdated = clock
                    /\ dbFile'[i].scrapedAt = m.pre.scrapedAt
    /\ \A i \in 1..Len(dbFile) : \A j \in WithId(dbFile', dbFile[i].id) :
          dbFile'[j].scrapedAt = dbFile[i].scrapedAt

Timestamps == [][TimestampsStep]_vars

\* a later run has merged a candidate into a record of the first run; the
\* store holds it with the time of its creation and the time of this run,
\* and in another state than the merge built: the stored record was kept
TimestampsWitness ==
    \E m \in merges :
        /\ m.kind = "existing"
        /\ \E i \in WithId(dbFile, m.pre.id) :
              /\ dbFile[i].scrapedAt = 0
              /\ dbFile[i].lastUpdated = clock - 1
              /\ clock - 1 > 0
              /\ dbFile[i] # JsonRec(m.out)

\* a record but for the time of its last update
SansUpdated(r) == [r EXCEPT !.lastUpdated = 0]

\* the two stores hold the same records but for lastUpdated
SameButUpdated(l1, l2) ==
    /\ Len(l1) = Len(l2)
    /\ {l1[i].id : i \in 1..Len(l1)} = {l2[i].id : i \in 1..Len(l2)}
    /\ {SansUpdated(l1[i]) : i \in 1..Len(l1)} = {SansUpdated(l2[i]) : i \in 1..Len(l2)}

\* the step is a run with the batch, and the extracted interests, of the
\* run before it
SecondRun ==
    /\ clock > 0 /\ clock' = clock + 1
    /\ lastBatch' = lastBatch /\ lastAi' = lastAi

\* C32: a run with the batch of the run before it leaves the store as that
\* run left it in every field but lastUpdated, with as many records and the
\* same ids.
IdempotentStep == SecondRun => SameButUpdated(dbFile', dbFile)

Idempotent == [][IdempotentStep]_vars

\* ------------------------------------------------------------------------
\* Properties of the enrichment
\* ------------------------------------------------------------------------
\* a text or a list with something in it
NonEmpty(x) == x.k \in {"str", "arr"} /\ x.v # << >>

\* C33: the record enrichInvestorProfile builds keeps every non-empty
\* fullBio and profile field for which the completion answered with nothing
\* or with an empty value, and keeps a fullBio longer than the answered one.
EnrichOnlyMerges ==
    (fnIn.fn = "enrich" /\ fnOut # << >>) =>
        LET inv == fnIn.investor
            inc == fnIn.enriched
            out == fnOut[1]
        IN  /\ (NonEmpty(inv.fullBio) /\ ~NonEmpty(inc.fullBio))
                  => out.fullBio = inv.fullBio
            /\ \A k \in DOMAIN inv.profile :
                  (NonEmpty(inv.profile[k]) /\ ~NonEmpty(Get(inc.profile, k)))
                      => out.profile[k] = inv.profile[k]
            /\ (NonEmpty(inv.fullBio) /\ Size(inc.fullBio) < Size(inv.fullBio))
                  => out.fullBio = inv.fullBio

\* ------------------------------------------------------------------------
\* Properties of the waiting caller and of the lock (Part I)
\* ------------------------------------------------------------------------
\* positions of a run from the answer of the adapter (line 101) to the
\* refresh of investors:all (line 357)
MidRunPcs == {"fetched", "merge", "invalidate", "recache"}

\* positions of a run from the answer of the adapter to the release of the
\* lock (line 403)
AfterFetchPcs == MidRunPcs \cup {"final_progress", "final_clear", "unlock"}

\* C34: a caller in the wait loop reads investors:all only when no run is
\* between the answer of the adapter and the refresh of investors:all, and
\* a non-empty list it returns holds the new records of the run that holds
\* the lock.
WaiterReadsFinishedStep ==
    \A c \in Callers :
        (pc[c] = "poll_cache" /\ pc'[c] = "done") =>
            /\ \A h \in Callers \ {c} : ~(Live(h) /\ pc[h] \in MidRunPcs)
            /\ ret'[c] # {} =>
                  \A h \in Callers \ {c} :
                      (Live(h) /\ lockOwner = h /\ pc[h] \in AfterFetchPcs)
                          => (scraped[h] \cup result[h]) \subseteq ret'[c]

WaiterReadsFinished == [][WaiterReadsFinishedStep]_vars

\* C35: the cleanup of a run whose flag was cleared as stale, or dropped at
\* the end of its lifetime, leaves in place a flag that another caller has
\* set since.
ReleaseOwnLockStep ==
    \A c \in Callers :
        (pc[c] = "unlock" /\ pc'[c] = "done" /\ Live(c)
            /\ c \in lostLock /\ lockFlag /\ lockOwner # c)
        => lockFlag'

ReleaseOwnLock == [][ReleaseOwnLockStep]_vars

\* the seconds since the flag was set (SETEX with the lifetime LockTTL)
FlagAge == LockTTL - lockTtl

\* C36: the clearing of a lock after the check of the last-run time, in a
\* process other than the one that set the flag, leaves in place a flag set
\* less than StaleAfter seconds ago.
FreshLockKeptStep ==
    \A c \in Callers :
        (pc[c] = "clr" /\ pc'[c] = "chk_mem" /\ Live(c)
            /\ lockFlag /\ ProcOf(lockOwner) # ProcOf(c)
            /\ FlagAge < StaleAfter)
        => lockFlag'

FreshLockKept == [][FreshLockKeptStep]_vars

\* ------------------------------------------------------------------------
\* Properties of the value a run returns (Part V)
\* ------------------------------------------------------------------------
\* C37: every record a run returns is, once serialized, the record of its
\* normalized name in the store the run has written.
ReturnedMatchesStore ==
    \A i \in 1..Len(jobResult) :
        \E j \in 1..Len(dbFile) :
            /\ NormalizeName(dbFile[j].name) = NormalizeName(jobResult[i].name)
            /\ dbFile[j] = JsonRec(jobResult[i])

\* C38: the records deduplicateInvestors returns, the duplicates it counts
\* and the invalid records it counts add up to the records it was given.
CountConservation ==
    (fnIn.fn = "dedup" /\ fnOut # << >>)
        => Len(fnOut[1].unique) + fnOut[1].duplicatesRemoved + fnOut[1].invalidRemoved
              = Len(fnIn.investors)

\* a list with a duplicate that replaced the record kept, an invalid record
\* and a record of another name
CountConservationWitness ==
    /\ fnIn.fn = "dedup" /\ Len(fnOut) = 1
    /\ Len(fnOut[1].unique) = 2
    /\ fnOut[1].duplicatesRemoved = 1 /\ fnOut[1].invalidRemoved = 1
    /\ \E i, j \in 1..Len(fnIn.investors) :
          /\ i < j /\ fnIn.investors[i] # fnIn.investors[j]
          /\ NormalizeName(fnIn.investors[i].name) = NormalizeName(fnIn.investors[j].name)
          /\ \E k \in 1..2 : fnOut[1].unique[k] = fnIn.investors[j]

====
